---- MODULE Spec2Model ----
(***************************************************************************)
(* A model of aoc-cli: the date/unlock engine of the aoc-client library    *)
(* (aoc-client/src/lib.rs) and the settings merge of the command-line      *)
(* front end (src/main.rs, build_client).                                  *)
(*                                                                         *)
(* Time is an integer number of seconds counted from 00:00:00 UTC on       *)
(* 1 January of EpochYear.  The clock only shows whole hours: the release  *)
(* offset is a whole number of hours and every unlock instant is a whole   *)
(* hour, so flooring an instant to the hour changes no comparison made by  *)
(* the code.                                                               *)
(*                                                                         *)
(* An Option<T> is a set with at most one element: None is {} and Some(x)  *)
(* is {x}.                                                                 *)
(***************************************************************************)
EXTENDS Integers, Sequences, FiniteSets, TLC

VARIABLES
    now,        \* Utc::now(): the wall clock, seconds since the epoch
    env,        \* the process environment (terminal, variables, files, time zone)
    args,       \* the parsed command line (args.rs, struct Args)
    config,     \* the persisted configuration (struct Config)
    builder,    \* the AocClientBuilder under construction
    client,     \* Option<AocClient>: the client returned by build()
    result,     \* the AocResult of the last fallible call / of the process
    pc,         \* position of the process in build_client and run
    requests,   \* the requests sent to adventofcode.com so far
    obs,        \* the library call made by the last step, with what it returned
    output,     \* what the process has printed on its standard output
    disk,       \* the files the program writes: path -> contents
    written,    \* Option: the arguments of the last set_config that succeeded
    exit,       \* Option: how main() ended the process: [code, hint]
    calls       \* the arguments of the set_config calls that succeeded, in order

vars ==
    <<now, env, args, config, builder, client, result, pc, requests, obs,
      output, disk, written, exit, calls>>

----------------------------------------------------------------------------
(* Option<T> *)

None == {}

Some(x) == {x}

IsSome(o) == o # {}

Unwrap(o) == CHOOSE x \in o : TRUE

----------------------------------------------------------------------------
(* Program constants, lib.rs 51-66 *)

FIRST_EVENT_YEAR == 2015

DECEMBER == 12

FIRST_PUZZLE_DAY == 1

LAST_PUZZLE_DAY == 25

RELEASE_TIMEZONE_OFFSET == (0 - 5) * 3600

DEFAULT_PUZZLE_INPUT == "input"

DEFAULT_PUZZLE_DESCRIPTION == "puzzle.md"

DEFAULT_COL_WIDTH == 80

----------------------------------------------------------------------------
(* Bounds of the model *)

\* the first calendar year (UTC) in which the clock can stand
FirstClockYear == 2023

\* how many consecutive calendar years the clock covers
NumClockYears == 2

ClockYears == FirstClockYear .. (FirstClockYear + NumClockYears - 1)

\* the year the time axis starts in; no instant of the model is earlier
EpochYear == FIRST_EVENT_YEAR - 1

----------------------------------------------------------------------------
(* The proleptic Gregorian calendar as chrono computes it                  *)
(* (NaiveDate::from_ymd_opt, and_hms_opt, Datelike::{year, month, day}).   *)

IsLeapYear(y) == (y % 4 = 0 /\ y % 100 # 0) \/ y % 400 = 0

DaysInMonth(y, m) ==
    IF m = 2 THEN (IF IsLeapYear(y) THEN 29 ELSE 28)
    ELSE IF m \in {4, 6, 9, 11} THEN 30 ELSE 31

\* leap years among the years 1 .. y-1
LeapYearsBefore(y) == ((y - 1) \div 4) - ((y - 1) \div 100) + ((y - 1) \div 400)

\* days from 1 January EpochYear to 1 January y
DaysBeforeYear(y) ==
    365 * (y - EpochYear) + LeapYearsBefore(y) - LeapYearsBefore(EpochYear)

\* days from 1 January y to the first of month m of year y
DaysBeforeMonth(y, m) ==
    <<0, 31, 59, 90, 120, 151, 181, 212, 243, 273, 304, 334>>[m]
        + (IF m > 2 /\ IsLeapYear(y) THEN 1 ELSE 0)

\* the greatest value of PuzzleYear = i32 (lib.rs 31)
I32_MAX == 2147483647

\* the last year chrono's NaiveDate reaches: the year shares the 32 bits of
\* a date with 13 bits for the day of the year and the flags
MAX_YEAR == I32_MAX \div 8192

\* NaiveDate::from_ymd_opt(y, m, d) is Some exactly for the calendar dates
\* of the years NaiveDate reaches
from_ymd_opt(y, m, d) ==
    IF y <= MAX_YEAR /\ m \in 1..12 /\ d >= 1 /\ d <= DaysInMonth(y, m)
    THEN Some([year |-> y, month |-> m, day |-> d])
    ELSE None

\* NaiveDate.and_hms_opt(h, 0, 0): the naive (zone-less) date-time, in seconds
NaiveSeconds(date, h) ==
    ((DaysBeforeYear(date.year) + DaysBeforeMonth(date.year, date.month)
        + (date.day - 1)) * 24 + h) * 3600

\* the calendar fields of a naive date-time given in seconds; only readings
\* of the clock are taken apart, and in any time zone they fall in the clock
\* years, the year before or the year after
NaiveYear(n) ==
    CHOOSE y \in (FirstClockYear - 1) .. (FirstClockYear + NumClockYears) :
        /\ DaysBeforeYear(y) * 86400 <= n
        /\ n < DaysBeforeYear(y + 1) * 86400

NaiveMonth(n) ==
    LET y == NaiveYear(n)
        dayOfYear == (n \div 86400) - DaysBeforeYear(y)
    IN  CHOOSE m \in 1..12 :
            /\ DaysBeforeMonth(y, m) <= dayOfYear
            /\ dayOfYear < DaysBeforeMonth(y, m) + DaysInMonth(y, m)

NaiveDay(n) ==
    LET y == NaiveYear(n)
    IN  (n \div 86400) - DaysBeforeYear(y) - DaysBeforeMonth(y, NaiveMonth(n)) + 1

----------------------------------------------------------------------------
(* DateTime<FixedOffset>: an instant (utc) together with the offset, in    *)
(* seconds east of UTC, in which its calendar fields are read.             *)

\* (variant: the time zone of the user, as chrono::Local would give)
LocalTimezone == env.local_offset

\* FixedOffset::east_opt(RELEASE_TIMEZONE_OFFSET).unwrap()
ReleaseTimezone == RELEASE_TIMEZONE_OFFSET

\* timezone.from_utc_datetime(&utc): same instant, read in the zone
from_utc_datetime(timezone, utc) == [utc |-> utc, offset |-> timezone]

\* (variant: the local time is taken for the time in UTC)
from_local_datetime_as_utc(timezone, local) ==
    Some([utc |-> local, offset |-> timezone])

\* timezone.from_local_datetime(&local).single(): the instant whose reading
\* in the zone is `local`; a fixed offset maps every local time to one instant
from_local_datetime(timezone, local) ==
    Some([utc |-> local - timezone, offset |-> timezone])

\* Datelike::year / month / day of a DateTime<FixedOffset>
DtYear(dt) == NaiveYear(dt.utc + dt.offset)

DtMonth(dt) == NaiveMonth(dt.utc + dt.offset)

DtDay(dt) == NaiveDay(dt.utc + dt.offset)

\* a.signed_duration_since(b), in seconds (the code takes milliseconds of an
\* i64 and only looks at the sign)
signed_duration_since(a, b) == a.utc - b.utc

----------------------------------------------------------------------------
(* AocError and AocResult, lib.rs 83-144 *)

Ok == [kind |-> "Ok", day |-> 0, year |-> 0, field |-> ""]

AocError(kind) == [kind |-> kind, day |-> 0, year |-> 0, field |-> ""]

InvalidEventYear(y) == [AocError("InvalidEventYear") EXCEPT !.year = y]

InvalidPuzzleDay(d) == [AocError("InvalidPuzzleDay") EXCEPT !.day = d]

InvalidPuzzleDate(d, y) ==
    [AocError("InvalidPuzzleDate") EXCEPT !.day = d, !.year = y]

LockedPuzzle(d, y) == [AocError("LockedPuzzle") EXCEPT !.day = d, !.year = y]

ClientFieldMissing(f) == [AocError("ClientFieldMissing") EXCEPT !.field = f]

IsOk(r) == r.kind = "Ok"

----------------------------------------------------------------------------
(* Free functions of the library, lib.rs 1078-1106.  utc is Utc::now(). *)

\* (variant: the day of the month is not capped at the last puzzle day)
last_unlocked_day_uncapped(year, utc) ==
    LET n == from_utc_datetime(ReleaseTimezone, utc)
    IN  IF year = DtYear(n) /\ DtMonth(n) = DECEMBER
        THEN Some(DtDay(n))
        ELSE IF year >= FIRST_EVENT_YEAR /\ year < DtYear(n)
        THEN Some(LAST_PUZZLE_DAY)
        ELSE None

\* (variant: a past event counts as unlocked only up to today's day)
last_unlocked_day_past_partial(year, utc) ==
    LET n == from_utc_datetime(ReleaseTimezone, utc)
    IN  IF year = DtYear(n) /\ DtMonth(n) = DECEMBER
        THEN IF DtDay(n) > LAST_PUZZLE_DAY
             THEN Some(LAST_PUZZLE_DAY)
             ELSE Some(DtDay(n))
        ELSE IF year >= FIRST_EVENT_YEAR /\ year < DtYear(n)
        THEN IF DtDay(n) > LAST_PUZZLE_DAY
             THEN Some(LAST_PUZZLE_DAY)
             ELSE Some(DtDay(n))
        ELSE None

last_unlocked_day(year, utc) ==
    LET n == from_utc_datetime(ReleaseTimezone, utc)
    IN  IF year = DtYear(n) /\ DtMonth(n) = DECEMBER
        THEN IF DtDay(n) > LAST_PUZZLE_DAY
             THEN Some(LAST_PUZZLE_DAY)
             ELSE Some(DtDay(n))
        ELSE IF year >= FIRST_EVENT_YEAR /\ year < DtYear(n)
        THEN Some(LAST_PUZZLE_DAY)
        ELSE None

\* (variant: December counts as before the event)
last_unlocked_year_inclusive(utc) ==
    LET n == from_utc_datetime(ReleaseTimezone, utc)
    IN  IF DtMonth(n) <= DECEMBER THEN DtYear(n) - 1 ELSE DtYear(n)

last_unlocked_year(utc) ==
    LET n == from_utc_datetime(ReleaseTimezone, utc)
    IN  IF DtMonth(n) < DECEMBER THEN DtYear(n) - 1 ELSE DtYear(n)

----------------------------------------------------------------------------
(* AocClientBuilder, lib.rs 861-1076.  A fallible method is an operator    *)
(* from the builder (and its arguments) to [b: the builder afterwards,     *)
(* res: the AocResult]; on Err the builder is as it was.                   *)

\* session_cookie.trim(): leading and trailing white space removed
RECURSIVE TrimStart(_)
TrimStart(s) ==
    IF s # <<>> /\ Head(s) \in {" ", "\n"} THEN TrimStart(Tail(s)) ELSE s

RECURSIVE TrimEnd(_)
TrimEnd(s) ==
    IF s # <<>> /\ s[Len(s)] \in {" ", "\n"}
    THEN TrimEnd(SubSeq(s, 1, Len(s) - 1))
    ELSE s

trim(s) == TrimEnd(TrimStart(s))

\* char::is_ascii_hexdigit
is_ascii_hexdigit(c) ==
    c \in {"0", "1", "2", "3", "4", "5", "6", "7", "8", "9",
           "a", "b", "c", "d", "e", "f", "A", "B", "C", "D", "E", "F"}

\* AocClientBuilder::default(); term is term_size::dimensions().map(|(w, _)| w)
BuilderDefault(term) ==
    [ session_cookie   |-> None,
      year             |-> None,
      day              |-> None,
      output_width     |-> IF IsSome(term) THEN Unwrap(term)
                           ELSE DEFAULT_COL_WIDTH,
      overwrite_files  |-> FALSE,
      input_filename   |-> "input",
      puzzle_filename  |-> "puzzle.md",
      show_html_markup |-> FALSE,
      leaderboard_id   |-> None ]

session_cookie(b, cookie) ==
    LET c == trim(cookie)
    IN  IF c = <<>> \/ ~(\A i \in 1..Len(c) : is_ascii_hexdigit(c[i]))
        THEN [b |-> b, res |-> AocError("InvalidSessionCookie")]
        ELSE [b |-> [b EXCEPT !.session_cookie = Some(c)], res |-> Ok]

\* (variant: the year before the first event is let through)
year_off_by_one(b, y) ==
    IF y >= FIRST_EVENT_YEAR - 1
    THEN [b |-> [b EXCEPT !.year = Some(y)], res |-> Ok]
    ELSE [b |-> b, res |-> InvalidEventYear(y)]

year(b, y) ==
    IF y >= FIRST_EVENT_YEAR
    THEN [b |-> [b EXCEPT !.year = Some(y)], res |-> Ok]
    ELSE [b |-> b, res |-> InvalidEventYear(y)]

\* (variant: the calendar year, whether its event has begun or not)
latest_event_year_calendar(b, utc) ==
    year(b, DtYear(from_utc_datetime(ReleaseTimezone, utc)))

latest_event_year(b, utc) == year(b, last_unlocked_year(utc))

day(b, d) ==
    IF d >= FIRST_PUZZLE_DAY /\ d <= LAST_PUZZLE_DAY
    THEN [b |-> [b EXCEPT !.day = Some(d)], res |-> Ok]
    ELSE [b |-> b, res |-> InvalidPuzzleDay(d)]

\* (variant: an event that has not begun defaults to its last day)
latest_puzzle_day_future_last(b, utc_year, utc_day) ==
    LET y1 == IF b.year = None THEN latest_event_year(b, utc_year)
              ELSE [b |-> b, res |-> Ok]
    IN  IF ~IsOk(y1.res) THEN y1
        ELSE LET event_year == Unwrap(y1.b.year)
                 n == from_utc_datetime(ReleaseTimezone, utc_day)
             IN  IF event_year = DtYear(n) /\ DtMonth(n) = DECEMBER
                 THEN IF DtDay(n) <= LAST_PUZZLE_DAY
                      THEN day(y1.b, DtDay(n))
                      ELSE day(y1.b, LAST_PUZZLE_DAY)
                 ELSE day(y1.b, LAST_PUZZLE_DAY)

\* (variant: a past event defaults to its first day)
latest_puzzle_day_past_first(b, utc_year, utc_day) ==
    LET y1 == IF b.year = None THEN latest_event_year(b, utc_year)
              ELSE [b |-> b, res |-> Ok]
    IN  IF ~IsOk(y1.res) THEN y1
        ELSE LET event_year == Unwrap(y1.b.year)
                 n == from_utc_datetime(ReleaseTimezone, utc_day)
             IN  IF event_year = DtYear(n) /\ DtMonth(n) = DECEMBER
                 THEN IF DtDay(n) <= LAST_PUZZLE_DAY
                      THEN day(y1.b, DtDay(n))
                      ELSE day(y1.b, LAST_PUZZLE_DAY)
                 ELSE day(y1.b, FIRST_PUZZLE_DAY)

\* latest_puzzle_day reads the clock itself (utc_day); when the year is still
\* unset it first calls latest_event_year, which makes an earlier reading of
\* its own (utc_year)
latest_puzzle_day(b, utc_year, utc_day) ==
    LET y1 == IF b.year = None THEN latest_event_year(b, utc_year)
              ELSE [b |-> b, res |-> Ok]
    IN  IF ~IsOk(y1.res) THEN y1
        ELSE LET event_year == Unwrap(y1.b.year)
                 n == from_utc_datetime(ReleaseTimezone, utc_day)
             IN  IF event_year = DtYear(n) /\ DtMonth(n) = DECEMBER
                 THEN IF DtDay(n) <= LAST_PUZZLE_DAY
                      THEN day(y1.b, DtDay(n))
                      ELSE day(y1.b, LAST_PUZZLE_DAY)
                 ELSE IF event_year < DtYear(n)
                 THEN day(y1.b, LAST_PUZZLE_DAY)
                 ELSE day(y1.b, FIRST_PUZZLE_DAY)

output_width(b, width) ==
    IF width > 0
    THEN [b |-> [b EXCEPT !.output_width = width], res |-> Ok]
    ELSE [b |-> b, res |-> AocError("InvalidOutputWidth")]

overwrite_files(b, overwrite) == [b EXCEPT !.overwrite_files = overwrite]

input_filename(b, path) == [b EXCEPT !.input_filename = path]

puzzle_filename(b, path) == [b EXCEPT !.puzzle_filename = path]

show_html_markup(b, show) == [b EXCEPT !.show_html_markup = show]

leaderboard_id(b, id) == [b EXCEPT !.leaderboard_id = id]

\* build(), lib.rs 901-924: the client of a builder that has a session
\* cookie, a year and a day
BuildComplete(b) ==
    LET d == Unwrap(b.day)
        y == Unwrap(b.year)
        date == from_ymd_opt(y, DECEMBER, d)
    IN  IF date = None
        THEN [c |-> None, res |-> InvalidPuzzleDate(d, y)]
        ELSE LET local_datetime == NaiveSeconds(Unwrap(date), 0)
                 unlock == from_local_datetime(ReleaseTimezone,
                                               local_datetime)
             IN  IF unlock = None
                 THEN [c |-> None, res |-> InvalidPuzzleDate(d, y)]
                 ELSE [c |-> Some(
                           [ session_cookie   |-> Unwrap(b.session_cookie),
                             unlock_datetime  |-> Unwrap(unlock),
                             year             |-> y,
                             day              |-> d,
                             output_width     |-> b.output_width,
                             overwrite_files  |-> b.overwrite_files,
                             input_filename   |-> b.input_filename,
                             puzzle_filename  |-> b.puzzle_filename,
                             show_html_markup |-> b.show_html_markup,
                             leaderboard_id   |-> b.leaderboard_id ]),
                       res |-> Ok]

\* (variant: the year is looked at before the session cookie)
build_year_first(b) ==
    IF b.year = None
    THEN [c |-> None, res |-> ClientFieldMissing("year")]
    ELSE IF b.session_cookie = None
    THEN [c |-> None, res |-> ClientFieldMissing("session cookie")]
    ELSE IF b.day = None
    THEN [c |-> None, res |-> ClientFieldMissing("day")]
    ELSE BuildComplete(b)

\* build(): [c: Option<AocClient>, res: AocResult]
build(b) ==
    IF b.session_cookie = None
    THEN [c |-> None, res |-> ClientFieldMissing("session cookie")]
    ELSE IF b.year = None
    THEN [c |-> None, res |-> ClientFieldMissing("year")]
    ELSE IF b.day = None
    THEN [c |-> None, res |-> ClientFieldMissing("day")]
    ELSE BuildComplete(b)

\* read_to_string(file): a file is [exists, content]; a file that exists
\* with no content is one that cannot be read
session_cookie_from_file(b, files, file) ==
    IF files[file].content = None
    THEN [b |-> b, res |-> AocError("SessionFileReadError")]
    ELSE session_cookie(b, Unwrap(files[file].content))

\* lib.rs 57-59; the first is looked up in config_dir(), the second in
\* home_dir(), and a directory that is not known is one where the file does
\* not exist
SESSION_COOKIE_FILE == "adventofcode.session"

HIDDEN_SESSION_COOKIE_FILE == ".adventofcode.session"

SESSION_COOKIE_ENV_VAR == "ADVENT_OF_CODE_SESSION"

\* (variant: the file of the config directory is looked for first)
DefaultSessionLocationConfigDirFirst(e) ==
    IF IsSome(e.session_var) /\ trim(Unwrap(e.session_var)) # <<>>
    THEN SESSION_COOKIE_ENV_VAR
    ELSE IF e.files[SESSION_COOKIE_FILE].exists THEN SESSION_COOKIE_FILE
    ELSE IF e.files[HIDDEN_SESSION_COOKIE_FILE].exists THEN HIDDEN_SESSION_COOKIE_FILE
    ELSE "not found"

\* the source session_cookie_from_default_locations settles on: the
\* environment variable, one of the two well-known files, or nothing
DefaultSessionLocation(e) ==
    IF IsSome(e.session_var) /\ trim(Unwrap(e.session_var)) # <<>>
    THEN SESSION_COOKIE_ENV_VAR
    ELSE IF e.files[HIDDEN_SESSION_COOKIE_FILE].exists THEN HIDDEN_SESSION_COOKIE_FILE
    ELSE IF e.files[SESSION_COOKIE_FILE].exists THEN SESSION_COOKIE_FILE
    ELSE "not found"

session_cookie_from_default_locations(b, e) ==
    LET loc == DefaultSessionLocation(e)
    IN  IF loc = SESSION_COOKIE_ENV_VAR
        THEN session_cookie(b, Unwrap(e.session_var))
        ELSE IF loc = "not found"
        THEN [b |-> b, res |-> AocError("SessionFileNotFound")]
        ELSE session_cookie_from_file(b, e.files, loc)

----------------------------------------------------------------------------
(* AocClient, lib.rs 224-238.  c is the client, utc is Utc::now(). *)

\* (variant: the comparison the wrong way round)
day_unlocked_reversed(c, utc) ==
    LET n == from_utc_datetime(ReleaseTimezone, utc)
    IN  signed_duration_since(n, c.unlock_datetime) <= 0

day_unlocked(c, utc) ==
    LET n == from_utc_datetime(ReleaseTimezone, utc)
    IN  signed_duration_since(n, c.unlock_datetime) >= 0

\* (variant: no puzzle is ever held back)
ensure_day_unlocked_never_locked(c, utc) == Ok

ensure_day_unlocked(c, utc) ==
    IF day_unlocked(c, utc) THEN Ok ELSE LockedPuzzle(c.day, c.year)

\* show_private_leaderboard, lib.rs 780-789: the id given as argument, else
\* the id the client was built with, else none
EffectiveLeaderboardId(c, arg) ==
    IF IsSome(arg) THEN arg
    ELSE IF IsSome(c.leaderboard_id) THEN c.leaderboard_id
    ELSE None

----------------------------------------------------------------------------
(* The persisted configuration: struct Config (lib.rs 1256-1305), written  *)
(* as TOML by write_config and read back by get_config.  Every field of    *)
(* Config is a ConfigOption { inner: Option<T> } and becomes a table of    *)
(* its own in the document; the table holds the key `inner` when the       *)
(* option is Some and is empty when it is None.  A document is a function  *)
(* from the table names to the Option of the value written under `inner`,  *)
(* and a value is its TOML type and its text: an integer is written in     *)
(* decimal digits and read back from them.                                 *)

CONFIG_FILE == ".adventofcode_config.toml"

\* home_dir().push(CONFIG_FILE) and config_dir().push(CONFIG_FILE)
HomeConfigPath == "~/.adventofcode_config.toml"

DirConfigPath == "~/.config/.adventofcode_config.toml"

\* the fields of Config and the Rust type of each
IntegerFields == {"year", "day", "width", "private_leaderboard_id"}

StringFields == {"session_file", "input_filename", "description_filename"}

ConfigFields == IntegerFields \cup StringFields

\* Config::default()
ConfigDefault == [f \in ConfigFields |-> None]

DecimalDigits == <<"0", "1", "2", "3", "4", "5", "6", "7", "8", "9">>

\* Display of an unsigned integer
RECURSIVE to_string(_)
to_string(n) ==
    IF n < 10 THEN <<DecimalDigits[n + 1]>>
    ELSE Append(to_string(n \div 10), DecimalDigits[(n % 10) + 1])

DigitValue(c) == CHOOSE v \in 0..9 : DecimalDigits[v + 1] = c

\* the integer a string of decimal digits stands for
RECURSIVE parse_integer(_)
parse_integer(s) ==
    IF Len(s) = 1 THEN DigitValue(s[1])
    ELSE 10 * parse_integer(SubSeq(s, 1, Len(s) - 1)) + DigitValue(s[Len(s)])

\* (variant: every value is written as a string)
toml_to_string_quoted(cfg) ==
    [ f \in ConfigFields |->
        IF cfg[f] = None THEN None
        ELSE IF f \in IntegerFields
        THEN Some([type |-> "string", text |-> to_string(Unwrap(cfg[f]))])
        ELSE Some([type |-> "string", text |-> Unwrap(cfg[f])]) ]

\* toml::to_string(&config)
toml_to_string(cfg) ==
    [ f \in ConfigFields |->
        IF cfg[f] = None THEN None
        ELSE IF f \in IntegerFields
        THEN Some([type |-> "integer", text |-> to_string(Unwrap(cfg[f]))])
        ELSE Some([type |-> "string", text |-> Unwrap(cfg[f])]) ]

\* toml::from_str(&config_contents): Ok(Config) as Some, Err as None; a
\* value of the wrong TOML type for its field is an error
toml_from_str(doc) ==
    IF \E f \in ConfigFields :
            /\ doc[f] # None
            /\ Unwrap(doc[f]).type
                   # (IF f \in IntegerFields THEN "integer" ELSE "string")
    THEN None
    ELSE Some([ f \in ConfigFields |->
                  IF doc[f] = None THEN None
                  ELSE IF f \in IntegerFields
                  THEN Some(parse_integer(Unwrap(doc[f]).text))
                  ELSE Some(Unwrap(doc[f]).text) ])

\* (variant: a home file that does not parse is passed over)
get_config_past_malformed(d) ==
    LET home == IF HomeConfigPath \in DOMAIN d
                THEN toml_from_str(d[HomeConfigPath]) ELSE None
        dir  == IF DirConfigPath \in DOMAIN d
                THEN toml_from_str(d[DirConfigPath]) ELSE None
    IN  IF home # None
        THEN [config |-> Unwrap(home), path |-> Some(HomeConfigPath)]
        ELSE IF dir # None
        THEN [config |-> Unwrap(dir), path |-> Some(DirConfigPath)]
        ELSE [config |-> ConfigDefault, path |-> None]

\* get_config(), lib.rs 177-222: the file of the home directory if it can
\* be read, else the file of the configuration directory; a file that does
\* not parse gives the default configuration and no path
get_config(d) ==
    LET path == IF HomeConfigPath \in DOMAIN d THEN Some(HomeConfigPath)
                ELSE IF DirConfigPath \in DOMAIN d THEN Some(DirConfigPath)
                ELSE None
    IN  IF path = None THEN [config |-> ConfigDefault, path |-> None]
        ELSE LET contents == toml_from_str(d[Unwrap(path)])
             IN  IF contents = None
                 THEN [config |-> ConfigDefault, path |-> None]
                 ELSE [config |-> Unwrap(contents), path |-> path]

\* the file system after path has been written with contents
WriteFile(d, path, contents) ==
    [q \in DOMAIN d \cup {path} |-> IF q = path THEN contents ELSE d[q]]

\* save_file, lib.rs 1131-1151: without `overwrite` the file is created
\* only if it does not exist yet
save_file(d, path, overwrite, contents) ==
    IF ~overwrite /\ path \in DOMAIN d
    THEN [d |-> d, res |-> AocError("FileWriteError")]
    ELSE [d |-> WriteFile(d, path, contents), res |-> Ok]

\* write_config, lib.rs 490-507
write_config(d, cfg, path, overwrite) ==
    save_file(d, path, overwrite, toml_to_string(cfg))

\* (variant: the fields that are not supplied are cleared)
set_config_clearing(d, s) ==
    LET old == get_config(d)
    IN  IF old.path = None
        THEN [d |-> d, res |-> AocError("ConfigError")]
        ELSE write_config(d, s, Unwrap(old.path), TRUE)

\* set_config, lib.rs 685-746; s holds the seven optional arguments under
\* the names of the fields they set
set_config(d, s) ==
    LET old == get_config(d)
    IN  IF old.path = None
        THEN [d |-> d, res |-> AocError("ConfigError")]
        ELSE write_config(d,
                 [f \in ConfigFields |->
                     IF IsSome(s[f]) THEN s[f] ELSE old.config[f]],
                 Unwrap(old.path), TRUE)

----------------------------------------------------------------------------
(* Requests and responses.  A text (a response body, a phrase) is a        *)
(* sequence of pieces; the text it stands for is the pieces one after the  *)
(* other, and one text contains another when the pieces of the second      *)
(* occur next to each other, in order, in the first.  A response is the    *)
(* status and the body; status 0 stands for a request that got no answer.  *)

HttpRequestError == AocError("HttpRequestError")

AocResponseError == AocError("AocResponseError")

\* str::contains
contains(text, phrase) ==
    \E i \in 1..(Len(text) - Len(phrase) + 1) :
        SubSeq(text, i, i + Len(phrase) - 1) = phrase

\* send().and_then(error_for_status): the response, or None for the
\* reqwest::Error of a request that failed or was answered with 4xx / 5xx
error_for_status(resp) ==
    IF resp.status = 0 \/ resp.status >= 400 THEN None ELSE Some(resp)

\* the tags the pattern (?i)<main> and (?i)</main> match
IsMainOpen(piece) == piece \in {"<main>", "<MAIN>"}

IsMainClose(piece) == piece \in {"</main>", "</MAIN>"}

\* Regex (?i)(?s)<main>(?P<main>.*)</main>: the group `main` of the
\* leftmost match, which runs from the first opening tag to the last
\* closing tag after it
CaptureMain(text) ==
    LET opens  == {i \in 1..Len(text) : IsMainOpen(text[i])}
        first  == CHOOSE i \in opens : \A j \in opens : i <= j
        closes == {j \in 1..Len(text) : IsMainClose(text[j]) /\ j > first}
        last   == CHOOSE j \in closes : \A k \in closes : k <= j
    IN  IF opens = {} THEN None
        ELSE IF closes = {} THEN None
        ELSE Some(SubSeq(text, first + 1, last - 1))

\* the result of an operation of the client: its AocResult, the requests
\* it sent and the value it returned
OpResult(res, sent, value) == [res |-> res, sent |-> sent, value |-> value]

Request(method, what, c, body) ==
    [method |-> method, what |-> what, year |-> c.year, day |-> c.day,
     body |-> body]

\* get_puzzle_html, lib.rs 240-262
get_puzzle_html(c, utc, resp) ==
    LET unlocked == ensure_day_unlocked(c, utc)
        req      == Request("GET", "puzzle", c, <<>>)
        response == error_for_status(resp)
        html     == CaptureMain(Unwrap(response).body)
    IN  IF ~IsOk(unlocked) THEN OpResult(unlocked, <<>>, None)
        ELSE IF response = None THEN OpResult(HttpRequestError, <<req>>, None)
        ELSE IF html = None THEN OpResult(AocResponseError, <<req>>, None)
        ELSE OpResult(Ok, <<req>>, html)

\* get_input, lib.rs 264-279
get_input(c, utc, resp) ==
    LET unlocked == ensure_day_unlocked(c, utc)
        req      == Request("GET", "input", c, <<>>)
        response == error_for_status(resp)
    IN  IF ~IsOk(unlocked) THEN OpResult(unlocked, <<>>, None)
        ELSE IF response = None THEN OpResult(HttpRequestError, <<req>>, None)
        ELSE OpResult(Ok, <<req>>, Some(Unwrap(response).body))

\* TryFrom<&str> for PuzzlePart, lib.rs 1232-1242
PuzzlePartFrom(s) == IF s \in {"1", "2"} THEN Some(s) ELSE None

\* submit_answer_html, lib.rs 281-322
submit_answer_html(c, utc, puzzle_part, answer, resp) ==
    LET unlocked == ensure_day_unlocked(c, utc)
        part     == PuzzlePartFrom(puzzle_part)
        req      == Request("POST", "answer", c,
                            <<"level=", Unwrap(part), "&answer=", answer>>)
        response == error_for_status(resp)
        html     == CaptureMain(Unwrap(response).body)
    IN  IF ~IsOk(unlocked) THEN OpResult(unlocked, <<>>, None)
        ELSE IF part = None
        THEN OpResult(AocError("InvalidPuzzlePart"), <<>>, None)
        ELSE IF response = None THEN OpResult(HttpRequestError, <<req>>, None)
        ELSE IF html = None THEN OpResult(AocResponseError, <<req>>, None)
        ELSE OpResult(Ok, <<req>>, html)

\* the phrases submit_answer looks for, lib.rs 335-342
RightAnswer == <<"That's ", "the right answer">>

NotRightAnswer == <<"That's ", "not ", "the right answer">>

TooRecently == <<"You gave an answer too recently">>

WrongLevelPhrase == <<"You don't seem to be solving the right level">>

\* (variant: the phrase of a wrong answer is looked for first)
submit_answer_incorrect_first(c, utc, puzzle_part, answer, resp) ==
    LET r == submit_answer_html(c, utc, puzzle_part, answer, resp)
        outcome == Unwrap(r.value)
    IN  IF ~IsOk(r.res) THEN r
        ELSE IF contains(outcome, NotRightAnswer)
        THEN OpResult(Ok, r.sent, Some("Incorrect"))
        ELSE IF contains(outcome, RightAnswer)
        THEN OpResult(Ok, r.sent, Some("Correct"))
        ELSE IF contains(outcome, TooRecently)
        THEN OpResult(Ok, r.sent, Some("Wait"))
        ELSE IF contains(outcome, WrongLevelPhrase)
        THEN OpResult(Ok, r.sent, Some("WrongLevel"))
        ELSE OpResult(AocResponseError, r.sent, None)

\* submit_answer, lib.rs 324-348: the value is the SubmissionOutcome
submit_answer(c, utc, puzzle_part, answer, resp) ==
    LET r == submit_answer_html(c, utc, puzzle_part, answer, resp)
        outcome == Unwrap(r.value)
    IN  IF ~IsOk(r.res) THEN r
        ELSE IF contains(outcome, RightAnswer)
        THEN OpResult(Ok, r.sent, Some("Correct"))
        ELSE IF contains(outcome, NotRightAnswer)
        THEN OpResult(Ok, r.sent, Some("Incorrect"))
        ELSE IF contains(outcome, TooRecently)
        THEN OpResult(Ok, r.sent, Some("Wait"))
        ELSE IF contains(outcome, WrongLevelPhrase)
        THEN OpResult(Ok, r.sent, Some("WrongLevel"))
        ELSE OpResult(AocResponseError, r.sent, None)

\* get_calendar_html, lib.rs 390-477: no look at the clock; 404 is taken
\* for a year without an event.  The clean-up of the page (391-477) is
\* kept as a mark on the text
get_calendar_html(c, resp) ==
    LET req      == [Request("GET", "calendar", c, <<>>) EXCEPT !.day = 0]
        response == error_for_status(resp)
        html     == CaptureMain(Unwrap(response).body)
    IN  IF resp.status = 404 THEN OpResult(InvalidEventYear(c.year), <<req>>, None)
        ELSE IF response = None THEN OpResult(HttpRequestError, <<req>>, None)
        ELSE IF html = None THEN OpResult(AocResponseError, <<req>>, None)
        ELSE OpResult(Ok, <<req>>, Some(<<"calendar">> \o Unwrap(html)))

\* html2text, lib.rs 848-858: the text is laid out by the html2text crate
\* at the width of the client, with or without the markup
html2text(c, html) ==
    [width |-> c.output_width, markup |-> c.show_html_markup, html |-> html]

\* parse_html of the html2md crate: the page as Markdown
parse_html(html) == <<"markdown">> \o html

----------------------------------------------------------------------------
(* The private leaderboard, lib.rs 748-846 and 1153-1213.  A leaderboard   *)
(* is [owner_id, members] where members is the HashMap as the sequence of  *)
(* its entries [key, member] in the order the map iterates them, which is  *)
(* any order.  A member is [id, name: Option, local_score,                 *)
(* completion_day_level]; completion_day_level is a function from the days *)
(* present to the set of level tags collected on that day.                 *)

GOLD == "Yellow"

SILVER == "TrueColor 160 160 160"

DARK_GRAY == "TrueColor 96 96 96"

\* PrivateLeaderboard::get_owner_name, lib.rs 1159-1163
get_name(m) ==
    IF IsSome(m.name) THEN Unwrap(m.name)
    ELSE <<"(anonymous user #">> \o to_string(m.id) \o <<")">>

\* (variant: the owner is taken to be the first member of the map)
get_owner_name_first_member(lb) ==
    IF lb.members = <<>> THEN None
    ELSE Some(get_name(lb.members[1].member))

get_owner_name(lb) ==
    LET found == {i \in 1..Len(lb.members) : lb.members[i].key = lb.owner_id}
    IN  IF found = {} THEN None
        ELSE Some(get_name(lb.members[CHOOSE i \in found : TRUE].member))

\* Member::count_stars, lib.rs 1186-1191
count_stars(m, d) ==
    IF d \in DOMAIN m.completion_day_level
    THEN Cardinality(m.completion_day_level[d])
    ELSE 0

\* (variant: among equal scores the lower id is the lesser member)
cmp_id_ascending(a, b) ==
    IF a.local_score < b.local_score THEN "Less"
    ELSE IF a.local_score > b.local_score THEN "Greater"
    ELSE IF a.id < b.id THEN "Less"
    ELSE IF a.id > b.id THEN "Greater"
    ELSE "Equal"

\* Ord for Member, lib.rs 1194-1201: increasing score, then decreasing id
cmp(a, b) ==
    IF a.local_score < b.local_score THEN "Less"
    ELSE IF a.local_score > b.local_score THEN "Greater"
    ELSE IF a.id < b.id THEN "Greater"
    ELSE IF a.id > b.id THEN "Less"
    ELSE "Equal"

\* Ord for std::cmp::Reverse
ReverseCmp(a, b) == cmp(b, a)

\* x put into a sorted sequence behind every element that is not greater
RECURSIVE InsertSorted(_, _)
InsertSorted(sorted, x) ==
    IF sorted = <<>> THEN <<x>>
    ELSE IF ReverseCmp(x, Head(sorted)) = "Less" THEN <<x>> \o sorted
    ELSE <<Head(sorted)>> \o InsertSorted(Tail(sorted), x)

\* members.sort_by_key(|member| Reverse(*member)): a stable sort
RECURSIVE sort_by_key(_)
sort_by_key(members) ==
    IF members = <<>> THEN <<>>
    ELSE InsertSorted(sort_by_key(SubSeq(members, 1, Len(members) - 1)),
                      members[Len(members)])

\* (variant: the cell of a day with one star is drawn like one with two)
StarCellNoSilver(m, d, last_unlocked) ==
    IF d > last_unlocked THEN [text |-> " ", color |-> "normal"]
    ELSE IF count_stars(m, d) \in {1, 2} THEN [text |-> "*", color |-> GOLD]
    ELSE [text |-> ".", color |-> DARK_GRAY]

\* lib.rs 824-834: the cell of day d in the row of member m
StarCell(m, d, last_unlocked) ==
    IF d > last_unlocked THEN [text |-> " ", color |-> "normal"]
    ELSE IF count_stars(m, d) = 2 THEN [text |-> "*", color |-> GOLD]
    ELSE IF count_stars(m, d) = 1 THEN [text |-> "*", color |-> SILVER]
    ELSE [text |-> ".", color |-> DARK_GRAY]

\* (variant: the ranks count from zero)
RankOfZeroBased(i) == i - 1

\* members.iter().zip(1..): the rank printed with the i-th member
RankOf(i) == i

\* lib.rs 795-843: what show_private_leaderboard prints for a leaderboard
\* that has its owner among the members
MemberLine(member, rank, last_unlocked) ==
    [kind  |-> "member",
     rank  |-> rank,
     score |-> member.local_score,
     stars |-> [d \in FIRST_PUZZLE_DAY..LAST_PUZZLE_DAY |->
                   StarCell(member, d, last_unlocked)],
     name  |-> get_name(member),
     id    |-> member.id]

LeaderboardLines(c, lb, last_unlocked) ==
    LET values  == [i \in 1..Len(lb.members) |-> lb.members[i].member]
        members == sort_by_key(values)
        highest_score == IF members = <<>> THEN 0 ELSE members[1].local_score
        widths  == [rank  |-> Len(to_string(1 + Len(lb.members))),
                    score |-> Len(to_string(highest_score))]
    IN  << [kind |-> "heading", owner |-> Unwrap(get_owner_name(lb)),
            year |-> c.year] >>
        \o [k \in 1..2 |-> [kind |-> "header", line |-> k, widths |-> widths,
                            on |-> last_unlocked]]
        \o [i \in 1..Len(members) |->
                MemberLine(members[i], RankOf(i), last_unlocked)]

\* get_private_leaderboard, lib.rs 748-771: the value is the leaderboard
\* read from the JSON body
get_private_leaderboard(c, id, resp) ==
    LET req == [method |-> "GET", what |-> "leaderboard",
                year |-> c.year, day |-> 0, id |-> id]
        response == error_for_status(resp)
    IN  IF response = None THEN OpResult(HttpRequestError, <<req>>, None)
        ELSE IF resp.status = 302
        THEN OpResult(AocError("PrivateLeaderboardNotAvailable"), <<req>>, None)
        ELSE IF resp.json = None
        THEN OpResult(HttpRequestError, <<req>>, None)
        ELSE OpResult(Ok, <<req>>, resp.json)

\* (variant: the leaderboard id is looked for before the unlocked day)
show_private_leaderboard_id_first(c, utc, arg, resp) ==
    LET lud == last_unlocked_day(c.year, utc)
        id  == EffectiveLeaderboardId(c, arg)
        r   == get_private_leaderboard(c, Unwrap(id), resp)
        lb  == Unwrap(r.value)
    IN  IF id = None
        THEN OpResult(AocError("PrivateLeaderboardNoId"), <<>>, <<>>)
        ELSE IF lud = None THEN OpResult(InvalidEventYear(c.year), <<>>, <<>>)
        ELSE IF ~IsOk(r.res) THEN OpResult(r.res, r.sent, <<>>)
        ELSE IF get_owner_name(lb) = None
        THEN OpResult(AocResponseError, r.sent, <<>>)
        ELSE OpResult(Ok, r.sent, LeaderboardLines(c, lb, Unwrap(lud)))

\* show_private_leaderboard, lib.rs 773-846: the value is what it prints
show_private_leaderboard(c, utc, arg, resp) ==
    LET lud == last_unlocked_day(c.year, utc)
        id  == EffectiveLeaderboardId(c, arg)
        r   == get_private_leaderboard(c, Unwrap(id), resp)
        lb  == Unwrap(r.value)
    IN  IF lud = None THEN OpResult(InvalidEventYear(c.year), <<>>, <<>>)
        ELSE IF id = None
        THEN OpResult(AocError("PrivateLeaderboardNoId"), <<>>, <<>>)
        ELSE IF ~IsOk(r.res) THEN OpResult(r.res, r.sent, <<>>)
        ELSE IF get_owner_name(lb) = None
        THEN OpResult(AocResponseError, r.sent, <<>>)
        ELSE OpResult(Ok, r.sent, LeaderboardLines(c, lb, Unwrap(lud)))

----------------------------------------------------------------------------
(* The clock.  It stands at one of the marked instants of the clock years  *)
(* and moves forward from one to a later one.  The marks are the hours on  *)
(* either side of 00:00 in the release time zone (05:00 UTC) on the days   *)
(* where a year, the month of December or a puzzle day begins, and one     *)
(* instant in the middle of the year.                                      *)

ClockMarks ==
    { <<1, 1, 4>>, <<1, 1, 5>>, <<6, 15, 12>>,
      <<12, 1, 4>>, <<12, 1, 5>>, <<12, 3, 4>>, <<12, 3, 5>>,
      <<12, 26, 4>>, <<12, 26, 5>> }

Instants ==
    { NaiveSeconds([year |-> y, month |-> k[1], day |-> k[2]], k[3]) :
        y \in ClockYears, k \in ClockMarks }

----------------------------------------------------------------------------
(* Inputs of a run: command line, persisted configuration, environment.    *)

\* years given on the command line or in the file: before the first event,
\* before the clock years, the first clock year, after the clock years
YearInputs ==
    { FIRST_EVENT_YEAR - 1, FirstClockYear - 1, FirstClockYear,
      FirstClockYear + NumClockYears }

\* days given on the command line or in the file (PuzzleDay is unsigned)
DayInputs == { 0, 3, LAST_PUZZLE_DAY + 1 }

Opt(S) == {None} \cup {Some(x) : x \in S}

CookieHome == <<"a", "1">>

CookieConfigDir == <<"a", "2">>

CookieCli == <<"c", "1", "\n">>

CookieFile == <<"c", "2">>

CookieVar == <<" ", "e", "1">>

CookieBlank == <<" ">>

CookieBad == <<"z", "1">>

SessionPaths ==
    { "cli.session", "cfg.session", HIDDEN_SESSION_COOKIE_FILE, SESSION_COOKIE_FILE }

Absent == [exists |-> FALSE, content |-> None]

Readable(text) == [exists |-> TRUE, content |-> Some(text)]

SessionText(path) ==
    IF path = "cli.session" THEN CookieCli
    ELSE IF path = "cfg.session" THEN CookieFile
    ELSE IF path = HIDDEN_SESSION_COOKIE_FILE THEN CookieHome
    ELSE CookieConfigDir

\* the file system in which exactly the paths of `present` exist
Files(present) ==
    [ path \in SessionPaths |->
        IF path \in present THEN Readable(SessionText(path)) ELSE Absent ]

BaseArgs ==
    [ command          |-> "read",
      leaderboard_id   |-> None,
      year             |-> None,
      day              |-> None,
      session_file     |-> None,
      width            |-> None,
      overwrite        |-> FALSE,
      input_only       |-> FALSE,
      puzzle_only      |-> FALSE,
      input_file       |-> DEFAULT_PUZZLE_INPUT,
      puzzle_file      |-> DEFAULT_PUZZLE_DESCRIPTION,
      show_html_markup |-> FALSE,
      part             |-> "1",
      answer           |-> "42" ]

BaseConfig == ConfigDefault

\* config_file is the path at which the configuration file lies, if there
\* is one; cwd_files are the paths that exist in the working directory
BaseEnv ==
    [ term_width   |-> None,
      local_offset |-> 3600,
      session_var  |-> None,
      files        |-> Files({HIDDEN_SESSION_COOKIE_FILE}),
      config_file  |-> Some(HomeConfigPath),
      cwd_files    |-> {} ]

\* runs that differ in the year and day given on the command line and in
\* the file
DateInputs ==
    { << [BaseArgs EXCEPT !.year = ay, !.day = ad],
         [BaseConfig EXCEPT !.year = cy, !.day = cd],
         BaseEnv >> :
        ay \in Opt(YearInputs), cy \in Opt(YearInputs),
        ad \in Opt(DayInputs), cd \in Opt(DayInputs) }

\* the dates of the runs that differ in something else: nothing given, a
\* date in the file, a date on the command line
FewDates ==
    { << [BaseArgs EXCEPT !.year = d[1], !.day = d[2]],
         [BaseConfig EXCEPT !.year = d[3], !.day = d[4]] >> :
        d \in { <<None, None, None, None>>,
                <<None, None, Some(FirstClockYear - 1), Some(3)>>,
                <<Some(FirstClockYear - 1), Some(3), None, None>> } }

WidthInputs ==
    { << [d[1] EXCEPT !.width = aw], [d[2] EXCEPT !.width = cw],
         [BaseEnv EXCEPT !.term_width = tw] >> :
        d \in FewDates, aw \in Opt({0, 100}), cw \in Opt({0, 60}),
        tw \in Opt({120}) }

FilenameInputs ==
    { << [d[1] EXCEPT !.input_file = ai, !.puzzle_file = ap],
         [d[2] EXCEPT !.input_filename = ci, !.description_filename = cp],
         BaseEnv >> :
        d \in FewDates,
        ai \in {DEFAULT_PUZZLE_INPUT, "in.txt"},
        ap \in {DEFAULT_PUZZLE_DESCRIPTION, "day.md"},
        ci \in Opt({"cfg_in.txt"}), cp \in Opt({"cfg_day.md"}) }

LeaderboardInputs ==
    { << [d[1] EXCEPT !.command = "private-leaderboard",
                      !.leaderboard_id = al],
         [d[2] EXCEPT !.private_leaderboard_id = cl],
         BaseEnv >> :
        d \in FewDates, al \in Opt({11}), cl \in Opt({22}) }

SessionInputs ==
    { << [BaseArgs EXCEPT !.session_file = asf],
         [BaseConfig EXCEPT !.session_file = csf],
         [BaseEnv EXCEPT !.session_var = sv, !.files = Files(present)] >> :
        asf \in Opt({"cli.session"}), csf \in Opt({"cfg.session"}),
        sv \in Opt({CookieVar, CookieBlank}),
        present \in SUBSET SessionPaths }

\* dates of the runs that go on to a command: nothing given, a day of the
\* first clock year (locked or unlocked with the clock), a day of the year
\* before
RunDates ==
    { <<None, None>>, <<Some(FirstClockYear), Some(3)>>,
      <<Some(FirstClockYear - 1), Some(3)>> }

CommandInputs ==
    { << [BaseArgs EXCEPT !.command = cmd, !.year = d[1], !.day = d[2]],
         BaseConfig, BaseEnv >> :
        cmd \in {"read", "submit", "calendar"}, d \in RunDates }

\* the download command: which of the two files is asked for, whether files
\* may be overwritten, and which of them exist already
DownloadInputs ==
    { << [BaseArgs EXCEPT !.command = "download",
                          !.year = d[1], !.day = d[2],
                          !.input_only = (only = "input"),
                          !.puzzle_only = (only = "puzzle"),
                          !.overwrite = ow],
         BaseConfig,
         [BaseEnv EXCEPT !.cwd_files = ex] >> :
        d \in { <<Some(FirstClockYear), Some(3)>>,
                <<Some(FirstClockYear - 1), Some(3)>> },
        only \in {"input", "puzzle", "neither"},
        ow \in BOOLEAN,
        ex \in SUBSET {DEFAULT_PUZZLE_INPUT, DEFAULT_PUZZLE_DESCRIPTION} }

\* the private-leaderboard command for a year with and without an unlocked
\* day
LeaderboardDates ==
    { << [BaseArgs EXCEPT !.command = "private-leaderboard",
                          !.year = Some(FirstClockYear), !.day = Some(d),
                          !.leaderboard_id = Some(11)],
         BaseConfig, BaseEnv >> :
        d \in {3, LAST_PUZZLE_DAY} }

\* the set-config command: runs whose effective settings come from the
\* command line, the file and the defaults, with the configuration file in
\* the home directory, in the configuration directory or nowhere
SetConfigInputs ==
    { << [d[1] EXCEPT !.command = "set-config", !.width = aw],
         (IF loc = Some(HomeConfigPath)
          THEN [d[2] EXCEPT !.private_leaderboard_id = cl,
                            !.description_filename = cp]
          ELSE IF loc = None THEN BaseConfig ELSE d[2]),
         [BaseEnv EXCEPT !.config_file = loc] >> :
        d \in FewDates, aw \in Opt({100}),
        cl \in Opt({22}), cp \in Opt({"cfg_day.md"}),
        loc \in {None, Some(HomeConfigPath), Some(DirConfigPath)} }

\* the download command for a year given without a day
YearOnlyDownload ==
    { << [BaseArgs EXCEPT !.command = "download",
                          !.year = Some(FirstClockYear)],
         BaseConfig, BaseEnv >> }

\* the private-leaderboard command without a leaderboard id, for a year
\* with and without an unlocked day
LeaderboardWithoutId ==
    { << [BaseArgs EXCEPT !.command = "private-leaderboard",
                          !.year = Some(FirstClockYear), !.day = Some(3)],
         BaseConfig, BaseEnv >> }

Inputs ==
    DateInputs \cup WidthInputs \cup FilenameInputs \cup LeaderboardInputs
        \cup SessionInputs \cup CommandInputs \cup DownloadInputs
        \cup LeaderboardDates \cup SetConfigInputs
        \cup YearOnlyDownload \cup LeaderboardWithoutId

\* the file system a run starts with
\* what a configuration file may hold: two documents that parse and one
\* that does not, its year being a string
ConfigDocuments ==
    { toml_to_string([ConfigDefault EXCEPT !.year = Some(FirstClockYear - 1),
                                           !.input_filename = Some("cfg_in.txt")]),
      toml_to_string([ConfigDefault EXCEPT !.day = Some(3),
                                           !.width = Some(60)]),
      [toml_to_string(ConfigDefault) EXCEPT
            !.year = Some([type |-> "string", text |-> "next"])] }

\* the file systems with a configuration file at none, one or both of the
\* two places
ConfigDisks ==
    { [path \in places |-> docs[path]] :
        places \in SUBSET {HomeConfigPath, DirConfigPath},
        docs \in [{HomeConfigPath, DirConfigPath} -> ConfigDocuments] }

\* how often a program calls set_config
MaxSetConfigCalls == 2

\* the arguments of a set_config call
SetConfigCalls ==
    { [ConfigDefault EXCEPT !.year = Some(FirstClockYear),
                            !.width = Some(100)],
      [ConfigDefault EXCEPT !.year = Some(FIRST_EVENT_YEAR),
                            !.description_filename = Some("day.md")],
      [ConfigDefault EXCEPT !.day = Some(5)] }

InitialDisk(e, cfg) ==
    [ path \in e.cwd_files \cup e.config_file |->
        IF path \in e.config_file THEN toml_to_string(cfg) ELSE <<"old">> ]

----------------------------------------------------------------------------
(* What adventofcode.com may answer.                                       *)

\* json is the value of the body read as the JSON of a leaderboard, if it
\* can be read as one
NoAnswer == [status |-> 0, body |-> <<>>, json |-> None]

Page(status, body) == [status |-> status, body |-> body, json |-> None]

Json(value) == [status |-> 200, body |-> <<"{...}">>, json |-> Some(value)]

\* answers to the request for a page: the page, a page without <main>, a
\* page not found, a server error, no answer
PageResponses ==
    { Page(200, <<"<html>", "<MAIN>", "<article>", "</main>", "</html>">>),
      Page(200, <<"<html>", "<article>", "</html>">>),
      Page(404, <<>>), Page(500, <<>>), NoAnswer }

InputResponses == { Page(200, <<"1 2 3">>), Page(404, <<>>), NoAnswer }

\* what the page that answers a submission may say: each of the phrases
\* submit_answer knows, a sentence that shares its ending with one of them,
\* and a sentence that shares nothing
OutcomeSentences ==
    { RightAnswer, NotRightAnswer, TooRecently, WrongLevelPhrase,
      <<"This is ", "not ", "the right answer">>, <<"Hello">> }

\* answers to a submission: pages with two sentences in <main>, a page
\* with a sentence in front of <main>, a page without <main>, a server
\* error that carries a page, no answer
SubmitResponses ==
    { Page(200, <<"<main>">> \o a \o b \o <<"</main>">>) :
        a, b \in OutcomeSentences }
    \cup { Page(200, a \o <<"<main>", "Hello", "</main>">>) :
              a \in {RightAnswer, NotRightAnswer} }
    \cup { Page(200, RightAnswer),
           Page(500, <<"<main>">> \o RightAnswer \o <<"</main>">>),
           NoAnswer }

\* the members a leaderboard is made of: two with the same score and one
\* with a lower score; one of them has no name
MemberPool ==
    { [id |-> 2, name |-> Some(<<"bob">>), local_score |-> 50,
       completion_day_level |-> (1 :> {"1", "2"} @@ 2 :> {"1"} @@ 3 :> {})],
      [id |-> 5, name |-> None, local_score |-> 50,
       completion_day_level |-> (1 :> {"1"} @@ 25 :> {"1", "2"})],
      [id |-> 9, name |-> Some(<<"eve">>), local_score |-> 30,
       completion_day_level |-> (4 :> {"1", "2"})] }

\* the sets of members with distinct ids
MemberSets ==
    { S \in SUBSET MemberPool : \A a, b \in S : a.id = b.id => a = b }

\* the orders in which a map with the members S may iterate
IterationOrders(S) ==
    { order \in [1..Cardinality(S) -> S] :
        \A i, j \in 1..Cardinality(S) : order[i] = order[j] => i = j }

Leaderboards ==
    { [owner_id |-> owner,
       members  |-> [i \in 1..Len(order) |->
                        [key |-> order[i].id, member |-> order[i]]]] :
        owner \in {2, 5, 7},
        order \in UNION { IterationOrders(S) : S \in MemberSets } }

LeaderboardResponses ==
    { Json(lb) : lb \in Leaderboards }
        \cup { Page(302, <<>>), Page(200, <<"<html>">>), Page(500, <<>>),
               NoAnswer }

----------------------------------------------------------------------------
(* The command-line program: main.rs, build_client (71-173) and run.       *)

NoObs == [op |-> "none", arg |-> 0, ret |-> 0]

Pending == AocError("Pending")

Init ==
    /\ now \in Instants
    /\ \E i \in Inputs :
        /\ args = i[1]
        /\ env = i[3]
        /\ disk = InitialDisk(i[3], i[2])
    /\ config = get_config(disk).config
    /\ builder = BuilderDefault(env.term_width)
    /\ client = None
    /\ result = Pending
    /\ pc = "session"
    /\ requests = <<>>
    /\ obs = NoObs
    /\ output = <<>>
    /\ written = None
    /\ exit = None
    /\ calls = <<>>

\* time passes
Tick ==
    /\ pc # "done"
    /\ \E t \in Instants : t > now /\ now' = t
    /\ obs' = NoObs
    /\ UNCHANGED <<env, args, config, builder, client, result, pc, requests>>
    /\ UNCHANGED <<output, disk, written, exit, calls>>

\* the exit codes of the crate exit_code, after sysexits.h
SUCCESS == 0

FAILURE == 1

USAGE_ERROR == 64

DATA_ERROR == 65

NO_INPUT == 66

CANNOT_CREATE == 73

IO_ERROR == 74

\* (variant: a locked puzzle is taken for a failure of the remote service)
ExitCodeOfLockedAsFailure(err) ==
    IF err.kind \in {"InvalidPuzzleDate", "InvalidEventYear",
                     "InvalidPuzzleDay"}
    THEN USAGE_ERROR
    ELSE IF err.kind = "SessionFileNotFound" THEN NO_INPUT
    ELSE IF err.kind = "SessionFileReadError" THEN IO_ERROR
    ELSE IF err.kind = "InvalidSessionCookie" THEN DATA_ERROR
    ELSE IF err.kind \in {"HttpRequestError", "AocResponseError",
                          "PrivateLeaderboardNotAvailable",
                          "PrivateLeaderboardNoId", "LockedPuzzle"}
    THEN FAILURE
    ELSE IF err.kind = "FileWriteError" THEN CANNOT_CREATE
    ELSE IF err.kind = "ConfigError" THEN DATA_ERROR
    ELSE USAGE_ERROR

\* main.rs 25-42: the exit code of an error
ExitCodeOf(err) ==
    IF err.kind \in {"InvalidPuzzleDate", "InvalidEventYear",
                     "InvalidPuzzleDay", "LockedPuzzle"}
    THEN USAGE_ERROR
    ELSE IF err.kind = "SessionFileNotFound" THEN NO_INPUT
    ELSE IF err.kind = "SessionFileReadError" THEN IO_ERROR
    ELSE IF err.kind = "InvalidSessionCookie" THEN DATA_ERROR
    ELSE IF err.kind \in {"HttpRequestError", "AocResponseError",
                          "PrivateLeaderboardNotAvailable",
                          "PrivateLeaderboardNoId"}
    THEN FAILURE
    ELSE IF err.kind = "FileWriteError" THEN CANNOT_CREATE
    ELSE IF err.kind = "ConfigError" THEN DATA_ERROR
    ELSE USAGE_ERROR

\* main.rs 21-54: the exit code of the process and whether the warning
\* that the session cookie may be invalid or expired is logged before
main_exit(res) ==
    IF IsOk(res) THEN [code |-> SUCCESS, hint |-> FALSE]
    ELSE [code |-> ExitCodeOf(res), hint |-> ExitCodeOf(res) = FAILURE]

\* `?` on an AocResult inside build_client / run: an Err ends the process
\* with that error, an Ok goes on at `next`
Continue(r, next) ==
    IF IsOk(r.res)
    THEN /\ pc' = next
         /\ result' = result
         /\ exit' = exit
    ELSE /\ pc' = "done"
         /\ result' = r.res
         /\ exit' = Some(main_exit(r.res))

\* main.rs 75-82: the session file of the command line, else that of the
\* configuration, else the default locations
SessionFileChoice(a, c) ==
    IF IsSome(a.session_file) THEN a.session_file
    ELSE IF IsSome(c.session_file) THEN c.session_file
    ELSE None

BuildClientSession ==
    /\ pc = "session"
    /\ LET file == SessionFileChoice(args, config)
           r == IF IsSome(file)
                THEN session_cookie_from_file(builder, env.files, Unwrap(file))
                ELSE session_cookie_from_default_locations(builder, env)
       IN  /\ builder' = r.b
           /\ Continue(r, "year")
           /\ obs' = [op |-> "session",
                      arg |-> IF IsSome(file) THEN Unwrap(file)
                              ELSE DefaultSessionLocation(env),
                      ret |-> r.res]
    /\ UNCHANGED <<now, env, args, config, client, requests>>
    /\ UNCHANGED <<output, disk, written, calls>>

\* main.rs 85-122: the four arms of the match on
\* ((args.year, args.day), (config.year, config.day))
SpecificYearSpecificDay(a, c) ==
    \/ IsSome(a.year) /\ IsSome(a.day)
    \/ IsSome(a.year) /\ a.day = None /\ IsSome(c.day)
    \/ a.year = None /\ IsSome(a.day) /\ IsSome(c.year)
    \/ a.year = None /\ a.day = None /\ IsSome(c.year) /\ IsSome(c.day)

SpecificYearUnspecifiedDay(a, c) ==
    \/ IsSome(a.year) /\ a.day = None /\ c.day = None
    \/ a.year = None /\ a.day = None /\ IsSome(c.year) /\ c.day = None

UnspecifiedYearSpecificDay(a, c) ==
    \/ a.year = None /\ IsSome(a.day) /\ c.year = None
    \/ a.year = None /\ a.day = None /\ c.year = None /\ IsSome(c.day)

UnspecifiedYearUnspecifiedDay(a, c) ==
    a.year = None /\ a.day = None /\ c.year = None /\ c.day = None

\* the `year` and the `day` the matching alternative binds
\* (variant: the file's year wins over the command line's)
BoundYearFileFirst(a, c) ==
    IF IsSome(c.year) THEN Unwrap(c.year) ELSE Unwrap(a.year)

BoundYear(a, c) == IF IsSome(a.year) THEN Unwrap(a.year) ELSE Unwrap(c.year)

BoundDay(a, c) == IF IsSome(a.day) THEN Unwrap(a.day) ELSE Unwrap(c.day)

\* the first call of the matching arm: builder.year(year) or
\* builder.latest_event_year()
BuildClientYear ==
    /\ pc = "year"
    /\ LET specific == \/ SpecificYearSpecificDay(args, config)
                       \/ SpecificYearUnspecifiedDay(args, config)
           r == IF specific
                THEN year(builder, BoundYear(args, config))
                ELSE latest_event_year(builder, now)
       IN  /\ builder' = r.b
           /\ Continue(r, "day")
           /\ obs' = [op |-> IF specific THEN "year" ELSE "latest_event_year",
                      arg |-> 0, ret |-> r.res]
    /\ UNCHANGED <<now, env, args, config, client, requests>>
    /\ UNCHANGED <<output, disk, written, calls>>

\* the second call of the matching arm: .day(day) or .latest_puzzle_day()
BuildClientDay ==
    /\ pc = "day"
    /\ LET specific == \/ SpecificYearSpecificDay(args, config)
                       \/ UnspecifiedYearSpecificDay(args, config)
           r == IF specific
                THEN day(builder, BoundDay(args, config))
                ELSE latest_puzzle_day(builder, now, now)
       IN  /\ builder' = r.b
           /\ Continue(r, "settings")
           /\ obs' = [op |-> IF specific THEN "day" ELSE "latest_puzzle_day",
                      arg |-> 0, ret |-> r.res]
    /\ UNCHANGED <<now, env, args, config, client, requests>>
    /\ UNCHANGED <<output, disk, written, calls>>

\* (variant: the file's width wins over the command line's)
WidthChoiceFileFirst(a, c) ==
    IF IsSome(c.width) THEN c.width
    ELSE IF IsSome(a.width) THEN a.width
    ELSE None

\* main.rs 124-129
WidthChoice(a, c) ==
    IF IsSome(a.width) THEN a.width
    ELSE IF IsSome(c.width) THEN c.width
    ELSE None

\* (variant: the file's name wins whatever the command line says)
InputFilenameChoiceFileAlways(a, c) ==
    IF IsSome(c.input_filename)
    THEN Unwrap(c.input_filename)
    ELSE a.input_file

\* main.rs 132-147
InputFilenameChoice(a, c) ==
    IF IsSome(c.input_filename) /\ a.input_file = DEFAULT_PUZZLE_INPUT
    THEN Unwrap(c.input_filename)
    ELSE a.input_file

\* main.rs 150-165
PuzzleFilenameChoice(a, c) ==
    IF IsSome(c.description_filename)
        /\ a.puzzle_file = DEFAULT_PUZZLE_DESCRIPTION
    THEN Unwrap(c.description_filename)
    ELSE a.puzzle_file

\* main.rs 124-173: width, file names, flags, leaderboard id, build()
BuildClientSettings ==
    /\ pc = "settings"
    /\ LET w  == WidthChoice(args, config)
           r1 == IF IsSome(w) THEN output_width(builder, Unwrap(w))
                 ELSE [b |-> builder, res |-> Ok]
       IN  IF ~IsOk(r1.res)
           THEN /\ builder' = r1.b
                /\ client' = client
                /\ Continue(r1, "run")
                /\ obs' = [op |-> "output_width", arg |-> Unwrap(w),
                           ret |-> r1.res]
           ELSE LET b2 == input_filename(r1.b,
                               InputFilenameChoice(args, config))
                    b3 == puzzle_filename(b2,
                               PuzzleFilenameChoice(args, config))
                    b4 == overwrite_files(b3, args.overwrite)
                    b5 == show_html_markup(b4, args.show_html_markup)
                    b6 == leaderboard_id(b5, config.private_leaderboard_id)
                    r  == build(b6)
                IN  /\ builder' = b6
                    /\ client' = r.c
                    /\ Continue(r, "run")
                    /\ obs' = [op |-> "build", arg |-> 0, ret |-> r.res]
    /\ UNCHANGED <<now, env, args, config, requests>>
    /\ UNCHANGED <<output, disk, written, calls>>

\* the response an operation got, if it sent a request
Got(r, resp) == IF r.sent = <<>> THEN None ELSE Some(resp)

\* run() returned r.res: the process ends
Finish(op, arg, r) ==
    /\ requests' = requests \o r.sent
    /\ result' = r.res
    /\ pc' = "done"
    /\ exit' = Some(main_exit(r.res))
    /\ obs' = [op |-> op, arg |-> arg, ret |-> r.res]

\* main.rs 228 and lib.rs 365-369: show_puzzle
RunRead ==
    /\ pc = "run"
    /\ args.command = "read"
    /\ \E resp \in PageResponses :
        LET c == Unwrap(client)
            r == get_puzzle_html(c, now, resp)
        IN  /\ Finish("show_puzzle", 0, r)
            /\ output' = IF IsOk(r.res)
                         THEN Append(output, html2text(c, Unwrap(r.value)))
                         ELSE output
    /\ UNCHANGED <<now, env, args, config, builder, client, disk, written, calls>>

\* main.rs 177 and lib.rs 479-488: show_calendar
RunCalendar ==
    /\ pc = "run"
    /\ args.command = "calendar"
    /\ \E resp \in PageResponses :
        LET c == Unwrap(client)
            r == get_calendar_html(c, resp)
        IN  /\ Finish("show_calendar", 0, r)
            /\ output' = IF IsOk(r.res)
                         THEN Append(output,
                                 [width |-> c.output_width, markup |-> FALSE,
                                  html |-> Unwrap(r.value)])
                         ELSE output
    /\ UNCHANGED <<now, env, args, config, builder, client, disk, written, calls>>

\* main.rs 222-224 and lib.rs 350-363: submit_answer_and_show_outcome
RunSubmit ==
    /\ pc = "run"
    /\ args.command = "submit"
    /\ \E resp \in PageResponses :
        LET c == Unwrap(client)
            r == submit_answer_html(c, now, args.part, args.answer, resp)
        IN  /\ Finish("submit_answer_and_show_outcome", 0, r)
            /\ output' = IF IsOk(r.res)
                         THEN Append(output, html2text(c, Unwrap(r.value)))
                         ELSE output
    /\ UNCHANGED <<now, env, args, config, builder, client, disk, written, calls>>

\* main.rs 179-181 and lib.rs 371-381: the description step of download
RunDownloadPuzzle ==
    /\ pc = "run"
    /\ args.command = "download"
    /\ ~args.input_only
    /\ \E resp \in PageResponses :
        LET c == Unwrap(client)
            r == get_puzzle_html(c, now, resp)
            s == IF IsOk(r.res)
                 THEN save_file(disk, c.puzzle_filename, c.overwrite_files,
                                parse_html(Unwrap(r.value)))
                 ELSE [d |-> disk, res |-> r.res]
        IN  /\ requests' = requests \o r.sent
            /\ disk' = s.d
            /\ obs' = [op |-> "save_puzzle_markdown", arg |-> 0,
                       ret |-> s.res]
            /\ IF IsOk(s.res) /\ ~args.puzzle_only
               THEN pc' = "save input" /\ result' = result /\ exit' = exit
               ELSE /\ pc' = "done"
                    /\ result' = s.res
                    /\ exit' = Some(main_exit(s.res))
    /\ UNCHANGED <<now, env, args, config, builder, client, output, written, calls>>

\* main.rs 182-185 and lib.rs 383-388: the input step of download
RunDownloadInput ==
    /\ \/ pc = "run" /\ args.command = "download" /\ args.input_only
       \/ pc = "save input"
    /\ \E resp \in InputResponses :
        LET c == Unwrap(client)
            r == get_input(c, now, resp)
            s == IF IsOk(r.res)
                 THEN save_file(disk, c.input_filename, c.overwrite_files,
                                Unwrap(r.value))
                 ELSE [d |-> disk, res |-> r.res]
        IN  /\ requests' = requests \o r.sent
            /\ disk' = s.d
            /\ obs' = [op |-> "save_input", arg |-> 0, ret |-> s.res]
            /\ pc' = "done"
            /\ result' = s.res
            /\ exit' = Some(main_exit(s.res))
    /\ UNCHANGED <<now, env, args, config, builder, client, output, written, calls>>

\* main.rs 225-227 and lib.rs 773-846: show_private_leaderboard
RunPrivateLeaderboard ==
    /\ pc = "run"
    /\ args.command = "private-leaderboard"
    /\ \E resp \in LeaderboardResponses :
        LET c == Unwrap(client)
            r == show_private_leaderboard(c, now, args.leaderboard_id, resp)
        IN  /\ Finish("show_private_leaderboard", Got(r, resp), r)
            /\ output' = output \o r.value
    /\ UNCHANGED <<now, env, args, config, builder, client, disk, written, calls>>

\* the values a run resolved, as arguments of set_config: all of them, the
\* date alone, or all but the date
SetConfigArguments(c) ==
    LET effective ==
            [ year                   |-> Some(c.year),
              day                    |-> Some(c.day),
              session_file           |-> None,
              width                  |-> Some(c.output_width),
              input_filename         |-> Some(c.input_filename),
              description_filename   |-> Some(c.puzzle_filename),
              private_leaderboard_id |-> c.leaderboard_id ]
    IN  { [f \in ConfigFields |-> IF f \in given THEN effective[f] ELSE None] :
            given \in { ConfigFields, {"year", "day"},
                        ConfigFields \ {"year", "day"} } }

\* main.rs 188-204 and lib.rs 685-746: set_config
RunSetConfig ==
    /\ pc = "run"
    /\ args.command = "set-config"
    /\ \E s \in SetConfigArguments(Unwrap(client)) :
        LET r == set_config(disk, s)
        IN  /\ disk' = r.d
            /\ result' = r.res
            /\ pc' = IF IsOk(r.res) THEN "config written" ELSE "done"
            /\ exit' = Some(main_exit(r.res))
            /\ written' = IF IsOk(r.res) THEN Some(s) ELSE written
            /\ calls' = IF IsOk(r.res) THEN Append(calls, s) ELSE calls
            /\ obs' = [op |-> "set_config", arg |-> s, ret |-> r.res]
    /\ UNCHANGED <<now, env, args, config, builder, client, requests, output>>

\* main.rs 14-21, 71-73: after a set-config the program is started again,
\* with nothing on the command line
RunAgain ==
    /\ pc = "config written"
    /\ args' = BaseArgs
    /\ config' = get_config(disk).config
    /\ builder' = BuilderDefault(env.term_width)
    /\ client' = None
    /\ result' = Pending
    /\ pc' = "session"
    /\ exit' = None
    /\ obs' = NoObs
    /\ output' = <<>>
    /\ UNCHANGED <<now, env, requests, disk, written, calls>>

Next ==
    \/ Tick
    \/ BuildClientSession
    \/ BuildClientYear
    \/ BuildClientDay
    \/ BuildClientSettings
    \/ RunRead
    \/ RunCalendar
    \/ RunSubmit
    \/ RunDownloadPuzzle
    \/ RunDownloadInput
    \/ RunPrivateLeaderboard
    \/ RunSetConfig
    \/ RunAgain

Spec == Init /\ [][Next]_vars

----------------------------------------------------------------------------
(* The library used directly: a program calls the builder's fallible       *)
(* methods in any order and with any arguments, calls build() until it     *)
(* returns a client, and then asks the client whether its day is unlocked; *)
(* it may call the two free functions at any time.  build() takes &self    *)
(* and changes nothing, so a client built after further builder calls is   *)
(* the client of that longer sequence of calls.  The infallible setters    *)
(* (file names, flags, leaderboard id) touch no field the others read and  *)
(* are left to build_client above.                                         *)

LibInit ==
    /\ now \in Instants
    /\ env = BaseEnv
    /\ args = BaseArgs
    /\ builder = BuilderDefault(env.term_width)
    /\ client = None
    /\ result = Pending
    /\ requests = <<>>
    /\ obs = NoObs
    /\ output = <<>>
    /\ \/ /\ pc = "lib"
          /\ config = BaseConfig
          /\ disk = InitialDisk(env, config)
       \/ /\ pc = "lib config"
          /\ disk \in ConfigDisks
          /\ config = get_config(disk).config
    /\ written = None
    /\ exit = None
    /\ calls = <<>>

LibFrame ==
    UNCHANGED <<env, args, config, result, requests, output, disk, written,
                exit, calls>>

\* a fallible builder method returned r
LibBuilderCall(op, arg, r) ==
    /\ pc = "lib"
    /\ builder' = r.b
    /\ obs' = [op |-> op, arg |-> arg, ret |-> r.res]
    /\ UNCHANGED <<now, client, pc>>
    /\ LibFrame

LibSessionCookie ==
    \E cookie \in {CookieCli, CookieBlank, CookieBad} :
        LibBuilderCall("session_cookie", cookie,
                       session_cookie(builder, cookie))

\* a year is any i32: the years of the runs and the greatest of all
LibYear ==
    \E y \in YearInputs \cup {I32_MAX} :
        LibBuilderCall("year", y, year(builder, y))

LibDay ==
    \E d \in DayInputs : LibBuilderCall("day", d, day(builder, d))

LibLatestEventYear ==
    LibBuilderCall("latest_event_year", 0, latest_event_year(builder, now))

\* with the year unset the call reads the clock twice, and the clock may
\* move between the two readings
LibLatestPuzzleDay ==
    /\ pc = "lib"
    /\ \E t \in Instants :
        /\ t >= now
        /\ builder.year # None => t = now
        /\ LET r == latest_puzzle_day(builder, now, t)
           IN  /\ builder' = r.b
               /\ obs' = [op |-> "latest_puzzle_day", arg |-> 0,
                          ret |-> r.res]
        /\ now' = t
    /\ UNCHANGED <<client, pc>>
    /\ LibFrame

LibBuild ==
    /\ pc = "lib"
    /\ LET r == build(builder)
       IN  /\ client' = r.c
           /\ pc' = IF IsOk(r.res) THEN "lib built" ELSE "lib"
           /\ obs' = [op |-> "build", arg |-> 0, ret |-> r.res]
    /\ UNCHANGED <<now, builder>>
    /\ LibFrame

LibDayUnlocked ==
    /\ pc = "lib built"
    /\ obs' = [op |-> "day_unlocked", arg |-> 0,
               ret |-> day_unlocked(Unwrap(client), now)]
    /\ UNCHANGED <<now, builder, client, pc>>
    /\ LibFrame

LibLastUnlockedDay ==
    /\ pc \in {"lib", "lib built"}
    /\ \E y \in YearInputs \cup ClockYears :
        obs' = [op |-> "last_unlocked_day", arg |-> y,
                ret |-> last_unlocked_day(y, now)]
    /\ UNCHANGED <<now, builder, client, pc>>
    /\ LibFrame

LibLastUnlockedYear ==
    /\ pc \in {"lib", "lib built"}
    /\ obs' = [op |-> "last_unlocked_year", arg |-> 0,
               ret |-> last_unlocked_year(now)]
    /\ UNCHANGED <<now, builder, client, pc>>
    /\ LibFrame

\* submit_answer, lib.rs 324-348; the program ends with the outcome
LibSubmitAnswer ==
    /\ pc = "lib built"
    /\ \E resp \in SubmitResponses, part \in {"1", "3"} :
        LET r == submit_answer(Unwrap(client), now, part, "42", resp)
        IN  /\ requests' = requests \o r.sent
            /\ obs' = [op |-> "submit_answer", arg |-> Got(r, resp),
                       ret |-> [res |-> r.res, value |-> r.value]]
    /\ pc' = "done"
    /\ UNCHANGED <<now, builder, client>>
    /\ UNCHANGED <<env, args, config, result, output, disk, written, exit>>
    /\ UNCHANGED calls

\* get_config, lib.rs 177-222
LibGetConfig ==
    /\ pc = "lib config"
    /\ obs' = [op |-> "get_config", arg |-> 0, ret |-> get_config(disk)]
    /\ UNCHANGED <<now, builder, client, pc>>
    /\ LibFrame

\* set_config, lib.rs 685-746
LibSetConfig ==
    /\ pc = "lib config"
    /\ Len(calls) < MaxSetConfigCalls
    /\ \E s \in SetConfigCalls :
        LET r == set_config(disk, s)
        IN  /\ disk' = r.d
            /\ written' = IF IsOk(r.res) THEN Some(s) ELSE written
            /\ calls' = IF IsOk(r.res) THEN Append(calls, s) ELSE calls
            /\ obs' = [op |-> "set_config", arg |-> s, ret |-> r.res]
    /\ UNCHANGED <<now, builder, client, pc>>
    /\ UNCHANGED <<env, args, config, result, requests, output, exit>>

LibNext ==
    \/ Tick
    \/ LibSessionCookie
    \/ LibYear
    \/ LibDay
    \/ LibLatestEventYear
    \/ LibLatestPuzzleDay
    \/ LibBuild
    \/ LibDayUnlocked
    \/ LibLastUnlockedDay
    \/ LibLastUnlockedYear
    \/ LibSubmitAnswer
    \/ LibGetConfig
    \/ LibSetConfig

SpecLib == LibInit /\ [][LibNext]_vars

\* the command-line program and the programs that use the library directly
SpecAll == (Init \/ LibInit) /\ [][Next \/ LibNext]_vars

----------------------------------------------------------------------------
(* Properties of the unlock engine, checked under SpecLib.                 *)
(*                                                                         *)
(* The properties speak of the release time zone without going through the *)
(* conversions of the code: 00:00:00 of a date in UTC-5 is 05:00:00 UTC of *)
(* that date.                                                              *)

ReleaseMidnightUtc(y, m, d) ==
    NaiveSeconds([year |-> y, month |-> m, day |-> d], 0) + 5 * 3600

\* the years in which the clock can stand in the release time zone
ReleaseYears == (FirstClockYear - 1) .. (FirstClockYear + NumClockYears)

\* Y is the current year in UTC-5 and the month is January..November
BeforeDecemberOf(Y) ==
    ReleaseMidnightUtc(Y, 1, 1) <= now /\ now < ReleaseMidnightUtc(Y, 12, 1)

\* Y is the current year in UTC-5 and the month is December
InDecemberOf(Y) ==
    ReleaseMidnightUtc(Y, 12, 1) <= now /\ now < ReleaseMidnightUtc(Y + 1, 1, 1)

\* the day of the month in UTC-5 when InDecemberOf(Y)
DecemberDay(Y) == ((now - ReleaseMidnightUtc(Y, 12, 1)) \div 86400) + 1

Min(a, b) == IF a <= b THEN a ELSE b

\* C1: day_unlocked() of the client built for (year, day) is true exactly
\* when the clock is at or after 00:00:00 of December `day` of `year` in
\* UTC-5, whatever the time zone of the user.
C1_DayUnlockedIffReleaseMidnight ==
    obs.op = "day_unlocked" =>
        LET c == Unwrap(client)
        IN  obs.ret <=> now >= ReleaseMidnightUtc(c.year, 12, c.day)

\* the client's day unlocks at this very instant, in a time zone of the user
\* that is not the release time zone
C1_Witness ==
    /\ obs.op = "day_unlocked"
    /\ obs.ret = TRUE
    /\ now = ReleaseMidnightUtc(Unwrap(client).year, 12, Unwrap(client).day)
    /\ env.local_offset # RELEASE_TIMEZONE_OFFSET

\* C2: for a fixed client, once day_unlocked() is true it is true at every
\* later instant.
C2_UnlockMonotonic ==
    [][ ( /\ IsSome(client)
          /\ client' = client
          /\ day_unlocked(Unwrap(client), now) )
        => day_unlocked(Unwrap(client'), now') ]_vars

\* a client seen unlocked an hour or more after its day unlocked
C2_Witness ==
    /\ obs.op = "day_unlocked"
    /\ obs.ret = TRUE
    /\ now > ReleaseMidnightUtc(Unwrap(client).year, 12, Unwrap(client).day)

\* C3: last_unlocked_year() is the current year of UTC-5 minus one in
\* January..November and the current year in December.
C3_LastUnlockedYear ==
    obs.op = "last_unlocked_year" =>
        \A Y \in ReleaseYears :
            /\ BeforeDecemberOf(Y) => obs.ret = Y - 1
            /\ InDecemberOf(Y) => obs.ret = Y

\* called in the last hour of November in UTC-5, when UTC is in December
C3_Witness ==
    /\ obs.op = "last_unlocked_year"
    /\ \E Y \in ReleaseYears :
        /\ now = ReleaseMidnightUtc(Y, 12, 1) - 3600
        /\ obs.ret = Y - 1

\* C4 as stated: last_unlocked_day(y) is 25 for every year y before the
\* current year of UTC-5.
C4_PastYearIs25 ==
    ( /\ obs.op = "last_unlocked_day"
      /\ now >= ReleaseMidnightUtc(obs.arg + 1, 1, 1) )
    => obs.ret = Some(25)

\* C4 amended: last_unlocked_day(y) is 25 for every year y from 2015 on
\* that is before the current year of UTC-5.
C4_PastEventYearIs25 ==
    ( /\ obs.op = "last_unlocked_day"
      /\ obs.arg >= 2015
      /\ now >= ReleaseMidnightUtc(obs.arg + 1, 1, 1) )
    => obs.ret = Some(25)

\* asked about last year in the first hour of the new year of UTC-5
C4_Witness ==
    /\ obs.op = "last_unlocked_day"
    /\ now = ReleaseMidnightUtc(obs.arg + 1, 1, 1)
    /\ obs.ret = Some(25)

\* C5: last_unlocked_day(y) is None for a year after the current year and
\* for the current year before December; for the current year in December
\* it is min(day of the month, 25).
C5_LastUnlockedDayOfCurrentAndFuture ==
    obs.op = "last_unlocked_day" =>
        /\ now < ReleaseMidnightUtc(obs.arg, 1, 1) => obs.ret = None
        /\ BeforeDecemberOf(obs.arg) => obs.ret = None
        /\ InDecemberOf(obs.arg) =>
                obs.ret = Some(Min(DecemberDay(obs.arg), 25))

\* asked about the current year after the 25th of December
C5_Witness ==
    /\ obs.op = "last_unlocked_day"
    /\ InDecemberOf(obs.arg)
    /\ DecemberDay(obs.arg) > 25
    /\ obs.ret = Some(25)

\* C10: year() rejects years before 2015 and day() rejects days outside
\* 1..25, so the builder never holds such a value and every client that
\* build() returns has year >= 2015 and 1 <= day <= 25.
C10_ClientDateInRange ==
    /\ (obs.op = "year" /\ obs.arg < 2015)
            => obs.ret = InvalidEventYear(obs.arg)
    /\ (obs.op = "day" /\ (obs.arg < 1 \/ obs.arg > 25))
            => obs.ret = InvalidPuzzleDay(obs.arg)
    /\ \A y \in builder.year : y >= 2015
    /\ \A d \in builder.day : 1 <= d /\ d <= 25
    /\ \A c \in client : c.year >= 2015 /\ 1 <= c.day /\ c.day <= 25

\* build() has just returned a client
C10_Witness ==
    /\ IsSome(client)
    /\ obs.op = "build"
    /\ IsOk(obs.ret)

----------------------------------------------------------------------------
(* Properties of the settings merge, checked under Spec.                   *)

\* the year step, resp. the day step, of build_client has just returned Ok
YearJustResolved ==
    pc = "day" /\ obs.op \in {"year", "latest_event_year"}

DayJustResolved ==
    pc = "settings" /\ obs.op \in {"day", "latest_puzzle_day"}

\* C6: with no day on the command line and none in the file, the day is
\* derived from the resolved year, be it the command line's or the file's:
\* min(day of the month, 25) when that year is the current year and the
\* month is December, 25 when it is a past year, 1 when it is a future year.
C6_DefaultDayFollowsResolvedYear ==
    (DayJustResolved /\ args.day = None /\ config.day = None) =>
        LET y == Unwrap(builder.year)
        IN  /\ obs.op = "latest_puzzle_day"
            /\ IsSome(args.year) => y = Unwrap(args.year)
            /\ (args.year = None /\ IsSome(config.year))
                    => y = Unwrap(config.year)
            /\ InDecemberOf(y)
                    => builder.day = Some(Min(DecemberDay(y), 25))
            /\ now >= ReleaseMidnightUtc(y + 1, 1, 1) => builder.day = Some(25)
            /\ now < ReleaseMidnightUtc(y, 1, 1) => builder.day = Some(1)

\* the year comes from the file, it is a past year, the month is not
\* December, and the day is 25
C6_Witness ==
    /\ DayJustResolved
    /\ args.year = None /\ args.day = None /\ config.day = None
    /\ config.year = Some(FirstClockYear - 1)
    /\ \E Y \in ReleaseYears : BeforeDecemberOf(Y)
    /\ builder.day = Some(25)

\* how many of the four arms of the match apply
ArmsApplying(a, c) ==
    Cardinality({ i \in 1..4 :
        \/ i = 1 /\ SpecificYearSpecificDay(a, c)
        \/ i = 2 /\ SpecificYearUnspecifiedDay(a, c)
        \/ i = 3 /\ UnspecifiedYearSpecificDay(a, c)
        \/ i = 4 /\ UnspecifiedYearUnspecifiedDay(a, c) })

\* C7: the year is the command line's if given, else the file's if present,
\* else last_unlocked_year(); the day is the command line's if given, else
\* the file's if present, else the latest puzzle day of the year already
\* resolved; exactly one arm of the match applies to each combination.
C7_JointYearDayResolution ==
    /\ ArmsApplying(args, config) = 1
    /\ YearJustResolved =>
            /\ IsSome(args.year) => builder.year = args.year
            /\ (args.year = None /\ IsSome(config.year))
                    => builder.year = config.year
            /\ (args.year = None /\ config.year = None)
                    => \A Y \in ReleaseYears :
                            /\ BeforeDecemberOf(Y) => builder.year = Some(Y - 1)
                            /\ InDecemberOf(Y) => builder.year = Some(Y)
    /\ DayJustResolved =>
            /\ IsSome(args.day) => builder.day = args.day
            /\ (args.day = None /\ IsSome(config.day))
                    => builder.day = config.day
            /\ (args.day = None /\ config.day = None)
                    => /\ obs.op = "latest_puzzle_day"
                       /\ \A y \in builder.year :
                            /\ InDecemberOf(y)
                                => builder.day = Some(Min(DecemberDay(y), 25))
                            /\ now >= ReleaseMidnightUtc(y + 1, 1, 1)
                                => builder.day = Some(25)
                            /\ now < ReleaseMidnightUtc(y, 1, 1)
                                => builder.day = Some(1)
    /\ \A c \in client :
            /\ Some(c.year) = builder.year
            /\ Some(c.day) = builder.day
            /\ IsSome(args.year) => c.year = Unwrap(args.year)
            /\ (args.year = None /\ IsSome(config.year))
                    => c.year = Unwrap(config.year)
            /\ IsSome(args.day) => c.day = Unwrap(args.day)
            /\ (args.day = None /\ IsSome(config.day))
                    => c.day = Unwrap(config.day)

\* a client whose year is the command line's, although the file has another
\* year, and whose day is the file's
C7_Witness ==
    /\ IsSome(client)
    /\ IsSome(args.year) /\ IsSome(config.year) /\ args.year # config.year
    /\ args.day = None /\ IsSome(config.day)
    /\ Unwrap(client).year = Unwrap(args.year)
    /\ Unwrap(client).day = Unwrap(config.day)

\* C8: output width, session file and private leaderboard id each take the
\* command line's value when there is one, else the file's when there is
\* one, else the built-in default, whatever the other fields are.
C8_CliThenFileThenDefault ==
    /\ \A c \in client :
            c.output_width =
                IF IsSome(args.width) THEN Unwrap(args.width)
                ELSE IF IsSome(config.width) THEN Unwrap(config.width)
                ELSE IF IsSome(env.term_width) THEN Unwrap(env.term_width)
                ELSE 80
    /\ obs.op = "session" =>
            IF IsSome(args.session_file)
            THEN obs.arg = Unwrap(args.session_file)
            ELSE IF IsSome(config.session_file)
            THEN obs.arg = Unwrap(config.session_file)
            ELSE obs.arg \in { "ADVENT_OF_CODE_SESSION", ".adventofcode.session",
                               "adventofcode.session", "not found" }
    /\ \A c \in client :
            /\ IsSome(args.session_file) =>
                    c.session_cookie =
                        trim(Unwrap(env.files[Unwrap(args.session_file)].content))
            /\ (args.session_file = None /\ IsSome(config.session_file)) =>
                    c.session_cookie =
                        trim(Unwrap(env.files[Unwrap(config.session_file)].content))
    /\ \A i \in 1..Len(requests) :
            requests[i].what = "leaderboard" =>
                Some(requests[i].id) =
                    IF IsSome(args.leaderboard_id) THEN args.leaderboard_id
                    ELSE config.private_leaderboard_id

\* the width comes from the command line, the file has another width, and
\* the year comes from the file
C8_Witness ==
    /\ IsSome(client)
    /\ IsSome(args.width) /\ IsSome(config.width) /\ args.width # config.width
    /\ Unwrap(client).output_width = Unwrap(args.width)
    /\ args.year = None /\ Some(Unwrap(client).year) = config.year

\* C9: the input file name and the description file name are the file's
\* exactly when the file has one and the command line's value is the
\* compiled-in default ("input", "puzzle.md"); otherwise the command line's.
C9_FilenameDefaultSentinel ==
    \A c \in client :
        /\ c.input_filename =
                IF IsSome(config.input_filename) /\ args.input_file = "input"
                THEN Unwrap(config.input_filename)
                ELSE args.input_file
        /\ c.puzzle_filename =
                IF IsSome(config.description_filename)
                    /\ args.puzzle_file = "puzzle.md"
                THEN Unwrap(config.description_filename)
                ELSE args.puzzle_file

\* the command line names another input file and the file's name is not
\* used, while the description name is the file's
C9_Witness ==
    /\ IsSome(client)
    /\ IsSome(config.input_filename) /\ args.input_file # "input"
    /\ Unwrap(client).input_filename = args.input_file
    /\ IsSome(config.description_filename)
    /\ Unwrap(client).puzzle_filename = Unwrap(config.description_filename)

----------------------------------------------------------------------------
(* Properties of the commands, checked under Spec.                         *)

\* the puzzle of the client is still locked: the clock is before 00:00:00 of
\* December `day` of `year` in UTC-5
PuzzleLocked ==
    /\ IsSome(client)
    /\ now < ReleaseMidnightUtc(Unwrap(client).year, 12, Unwrap(client).day)

\* this step is run() carrying out (a step of) one of the commands
CommandStep(commands) ==
    /\ pc \in {"run", "save input"}
    /\ pc' # pc
    /\ args.command \in commands

\* C11 as stated: every operation that goes to the network (puzzle page,
\* input, answer, calendar, private leaderboard) fails with
\* LockedPuzzle(day, year) and sends no request when the client's puzzle is
\* still locked.
C11_NetworkOperationsRefuseLockedPuzzle ==
    [][ ( /\ CommandStep({"read", "download", "submit", "calendar",
                          "private-leaderboard"})
          /\ PuzzleLocked )
        => /\ result' = [kind |-> "LockedPuzzle", day |-> Unwrap(client).day,
                         year |-> Unwrap(client).year, field |-> ""]
           /\ requests' = requests ]_vars

\* C11, amended: fetching the puzzle page, fetching the input and submitting
\* an answer fail with LockedPuzzle(day, year) and send no request when the
\* client's puzzle is still locked.
C11_PuzzleOperationsRefuseLockedPuzzle ==
    [][ ( /\ CommandStep({"read", "download", "submit"})
          /\ PuzzleLocked )
        => /\ result' = [kind |-> "LockedPuzzle", day |-> Unwrap(client).day,
                         year |-> Unwrap(client).year, field |-> ""]
           /\ requests' = requests ]_vars

\* an answer for a locked puzzle was refused and nothing was sent
C11_Witness ==
    /\ pc = "done"
    /\ args.command = "submit"
    /\ PuzzleLocked
    /\ result.kind = "LockedPuzzle"
    /\ requests = <<>>

----------------------------------------------------------------------------
(* Properties of build(), checked under SpecAll.                           *)

\* the first of session cookie, year and day the builder has not got
FirstUnset(b) ==
    IF b.session_cookie = {} THEN "session cookie"
    ELSE IF b.year = {} THEN "year"
    ELSE IF b.day = {} THEN "day"
    ELSE "none"

\* build() reports ClientFieldMissing exactly when one of the three is
\* unset, and names the first unset one; the command-line program never
\* ends with it
MissingFieldReported ==
    /\ obs.op = "build" =>
            /\ obs.ret.kind = "ClientFieldMissing"
                    <=> FirstUnset(builder) # "none"
            /\ obs.ret.kind = "ClientFieldMissing"
                    => obs.ret.field = FirstUnset(builder)
    /\ pc \notin {"lib", "lib built"} => result.kind # "ClientFieldMissing"

\* C12 as stated: build() returns ClientFieldMissing exactly when the
\* session cookie, the year or the day is unset, naming the first unset one
\* in that order, and returns a client when all three are set; build_client
\* never produces ClientFieldMissing.
C12_BuildMissingFieldOrClient ==
    /\ MissingFieldReported
    /\ (obs.op = "build" /\ FirstUnset(builder) = "none")
            => obs.ret.kind = "Ok" /\ client # {}

\* C12, amended: as stated, except that with all three set build() returns
\* a client only when the year is one the calendar reaches (up to 262142),
\* and InvalidPuzzleDate(day, year) for the years of an i32 beyond 262143.
C12_BuildMissingFieldOrClientOrDate ==
    /\ MissingFieldReported
    /\ (obs.op = "build" /\ FirstUnset(builder) = "none")
            => \A y \in builder.year, d \in builder.day :
                /\ y <= 262142 =>
                        /\ obs.ret.kind = "Ok"
                        /\ \E c \in client : c.year = y /\ c.day = d
                /\ y > 262143 =>
                        /\ obs.ret = [kind |-> "InvalidPuzzleDate", day |-> d,
                                      year |-> y, field |-> ""]
                        /\ client = {}

\* build() called with the session cookie and the year set and the day
\* still unset
C12_Witness ==
    /\ obs.op = "build"
    /\ builder.session_cookie # {} /\ builder.year # {} /\ builder.day = {}
    /\ obs.ret.kind = "ClientFieldMissing"
    /\ obs.ret.field = "day"

----------------------------------------------------------------------------
(* The displayed private leaderboard.                                      *)

\* the member rows on the standard output, in the order they were printed
MemberRows == SelectSeq(output, LAMBDA line : line.kind = "member")

\* a show_private_leaderboard call has fetched a leaderboard
LeaderboardFetched ==
    /\ obs.op = "show_private_leaderboard"
    /\ obs.arg # None
    /\ Unwrap(obs.arg).json # None

FetchedLeaderboard == Unwrap(Unwrap(obs.arg).json)

\* a show_private_leaderboard call has printed a leaderboard
LeaderboardShown == LeaderboardFetched /\ IsOk(obs.ret)

\* the member of the fetched leaderboard that has the id
FetchedMember(id) ==
    LET lb == FetchedLeaderboard
    IN  lb.members[CHOOSE i \in 1..Len(lb.members) :
                       lb.members[i].member.id = id].member

\* C13: the displayed rows are the members of the fetched leaderboard, each
\* once, in the order of decreasing local score and, among members of equal
\* score, of increasing id, whatever order the member map iterated in.
C13_RowsByScoreDescendingThenIdAscending ==
    LeaderboardShown =>
        LET rows == MemberRows
            lb   == FetchedLeaderboard
        IN  /\ Len(rows) = Len(lb.members)
            /\ { rows[i].id : i \in 1..Len(rows) }
                   = { lb.members[i].member.id : i \in 1..Len(lb.members) }
            /\ \A i, j \in 1..Len(rows) :
                   i < j => \/ rows[i].score > rows[j].score
                            \/ /\ rows[i].score = rows[j].score
                               /\ rows[i].id < rows[j].id

\* scores 50, 50, 30 iterated in the id order 5, 2, 9 were shown as 2, 5, 9
C13_Witness ==
    /\ LeaderboardShown
    /\ [i \in 1..Len(FetchedLeaderboard.members) |->
           FetchedLeaderboard.members[i].member.id] = <<5, 2, 9>>
    /\ [i \in 1..Len(MemberRows) |-> MemberRows[i].id] = <<2, 5, 9>>
    /\ [i \in 1..Len(MemberRows) |-> MemberRows[i].score] = <<50, 50, 30>>

\* C14: the i-th displayed member has rank i, so the ranks are pairwise
\* distinct, cover 1..memberCount, and differ between members of equal score.
C14_RankIsPositionInSortedSequence ==
    LeaderboardShown =>
        LET rows == MemberRows
        IN  /\ \A i \in 1..Len(rows) : rows[i].rank = i
            /\ { rows[i].rank : i \in 1..Len(rows) }
                   = 1..Len(FetchedLeaderboard.members)
            /\ \A i, j \in 1..Len(rows) :
                   i # j => rows[i].rank # rows[j].rank

\* two members of equal score were shown with the ranks 1 and 2
C14_Witness ==
    /\ LeaderboardShown
    /\ Len(MemberRows) = 3
    /\ MemberRows[1].score = MemberRows[2].score
    /\ MemberRows[1].rank = 1
    /\ MemberRows[2].rank = 2
    /\ MemberRows[3].rank = 3

\* the number of level tags the member has for the day
LevelTags(member, d) ==
    IF d \in DOMAIN member.completion_day_level
    THEN Cardinality(member.completion_day_level[d])
    ELSE 0

\* C15: each member row has one cell for each of the days 1..25: blank for
\* a day after the last unlocked day and otherwise gold for 2 level tags,
\* silver for 1 and the dim placeholder for none or for a day absent from
\* the member's map.
C15_StarGridCells ==
    LeaderboardShown =>
        LET last == Unwrap(last_unlocked_day(Unwrap(client).year, now))
        IN  \A i \in 1..Len(MemberRows) :
                LET row    == MemberRows[i]
                    member == FetchedMember(row.id)
                IN  /\ DOMAIN row.stars = 1..25
                    /\ \A d \in 1..25 :
                        row.stars[d] =
                            IF d > last
                            THEN [text |-> " ", color |-> "normal"]
                            ELSE IF LevelTags(member, d) = 2
                            THEN [text |-> "*", color |-> GOLD]
                            ELSE IF LevelTags(member, d) = 1
                            THEN [text |-> "*", color |-> SILVER]
                            ELSE [text |-> ".", color |-> DARK_GRAY]

\* with the third day the last unlocked one, the tags {1: 2, 2: 1, 3: 0}
\* were drawn gold, silver, dim and then blank
C15_Witness ==
    /\ LeaderboardShown
    /\ last_unlocked_day(Unwrap(client).year, now) = Some(3)
    /\ \E i \in 1..Len(MemberRows) :
        /\ MemberRows[i].id = 2
        /\ MemberRows[i].stars[1] = [text |-> "*", color |-> GOLD]
        /\ MemberRows[i].stars[2] = [text |-> "*", color |-> SILVER]
        /\ MemberRows[i].stars[3] = [text |-> ".", color |-> DARK_GRAY]
        /\ \A d \in 4..25 :
               MemberRows[i].stars[d] = [text |-> " ", color |-> "normal"]

\* the keys of the fetched leaderboard's member map
MemberKeys ==
    { FetchedLeaderboard.members[i].key :
        i \in 1..Len(FetchedLeaderboard.members) }

\* C19: when the owner id of the fetched leaderboard is not a key of its
\* member map, show_private_leaderboard returns AocResponseError and prints
\* no member row; when it is, the heading carries the owner's name, or the
\* anonymous placeholder made of its id.
C19_OwnerMustBeAMember ==
    LeaderboardFetched =>
        LET lb == FetchedLeaderboard
        IN  IF lb.owner_id \notin MemberKeys
            THEN /\ obs.ret = AocResponseError
                 /\ MemberRows = <<>>
            ELSE LET owner == FetchedMember(lb.owner_id)
                 IN  /\ IsOk(obs.ret)
                     /\ output[1].kind = "heading"
                     /\ output[1].owner =
                            IF owner.name # None THEN Unwrap(owner.name)
                            ELSE <<"(anonymous user #">>
                                     \o to_string(lb.owner_id) \o <<")">>

\* a leaderboard with members, none of them the owner, was refused
C19_Witness ==
    /\ LeaderboardFetched
    /\ FetchedLeaderboard.members # <<>>
    /\ FetchedLeaderboard.owner_id \notin MemberKeys
    /\ obs.ret = AocResponseError
    /\ output = <<>>

----------------------------------------------------------------------------
(* The outcome of a submission.                                            *)

\* a submit_answer call has received the page that answers the submission
SubmissionAnswered ==
    /\ obs.op = "submit_answer"
    /\ obs.arg # None
    /\ error_for_status(Unwrap(obs.arg)) # None

\* the outcome the call returned is o
Outcome(o) == obs.ret = [res |-> Ok, value |-> Some(o)]

OutcomeError == obs.ret = [res |-> AocResponseError, value |-> None]

\* C16 as stated: the phrases are looked for in the response body, and a
\* wrong answer is known by "not the right answer".
C16_BodyPhraseDecidesOutcome ==
    SubmissionAnswered =>
        LET body == Unwrap(obs.arg).body
        IN  IF contains(body, <<"That's ", "the right answer">>)
            THEN Outcome("Correct")
            ELSE IF contains(body, <<"not ", "the right answer">>)
            THEN Outcome("Incorrect")
            ELSE IF contains(body, TooRecently) THEN Outcome("Wait")
            ELSE IF contains(body, WrongLevelPhrase)
            THEN Outcome("WrongLevel")
            ELSE OutcomeError

\* C16: the phrases are looked for in the <main> part of the received
\* page, in the order "That's the right answer" (Correct), "That's not the
\* right answer" (Incorrect), too recently (Wait), right level
\* (WrongLevel); the first one found decides, and a page without a <main>
\* part or with none of the phrases in it yields AocResponseError.
C16_MainPartPhraseDecidesOutcome ==
    SubmissionAnswered =>
        LET main == CaptureMain(Unwrap(obs.arg).body)
            text == Unwrap(main)
        IN  IF main = None THEN OutcomeError
            ELSE IF contains(text, <<"That's ", "the right answer">>)
            THEN Outcome("Correct")
            ELSE IF contains(text, <<"That's ", "not ", "the right answer">>)
            THEN Outcome("Incorrect")
            ELSE IF contains(text, TooRecently) THEN Outcome("Wait")
            ELSE IF contains(text, WrongLevelPhrase)
            THEN Outcome("WrongLevel")
            ELSE OutcomeError

\* a page that says both that the answer is not right and that it is right
\* was taken for Correct
C16_Witness ==
    /\ SubmissionAnswered
    /\ Unwrap(obs.arg).body
           = <<"<main>">> \o NotRightAnswer \o RightAnswer \o <<"</main>">>
    /\ Outcome("Correct")

----------------------------------------------------------------------------
(* The sources of the session cookie.                                      *)

\* the explicit file path: the command line's, else the file's
ExplicitSessionFile ==
    IF args.session_file # None THEN args.session_file
    ELSE config.session_file

\* the environment variable is set and is not blank
SessionVariablePresent ==
    /\ env.session_var # None
    /\ \E i \in 1..Len(Unwrap(env.session_var)) :
           Unwrap(env.session_var)[i] \notin {" ", "\n", "\t"}

\* the highest source that is present
HighestSessionSource ==
    IF ExplicitSessionFile # None THEN Unwrap(ExplicitSessionFile)
    ELSE IF SessionVariablePresent THEN "ADVENT_OF_CODE_SESSION"
    ELSE IF env.files[".adventofcode.session"].exists
    THEN ".adventofcode.session"
    ELSE IF env.files["adventofcode.session"].exists
    THEN "adventofcode.session"
    ELSE "not found"

\* C17: the session cookie is looked for in the highest source that is
\* present, in the order explicit file path (command line, then file),
\* environment variable (a blank one counts as absent), home dotfile, file
\* of the config directory; the result is SessionFileNotFound exactly when
\* none is present, and a cookie that is accepted is that source's.
C17_HighestPresentSessionSource ==
    obs.op = "session" =>
        /\ obs.arg = HighestSessionSource
        /\ obs.ret = AocError("SessionFileNotFound")
               <=> HighestSessionSource = "not found"
        /\ IsOk(obs.ret) =>
               builder.session_cookie =
                   IF HighestSessionSource = "ADVENT_OF_CODE_SESSION"
                   THEN Some(trim(Unwrap(env.session_var)))
                   ELSE Some(trim(Unwrap(
                            env.files[HighestSessionSource].content)))

\* with no explicit path, a blank environment variable and no home dotfile
\* the cookie came from the file of the config directory, the home dotfile
\* not being there
C17_Witness ==
    /\ obs.op = "session"
    /\ ExplicitSessionFile = None
    /\ env.session_var = Some(CookieBlank)
    /\ ~env.files[".adventofcode.session"].exists
    /\ env.files["adventofcode.session"].exists
    /\ obs.arg = "adventofcode.session"
    /\ builder.session_cookie = Some(CookieConfigDir)

----------------------------------------------------------------------------
(* Writing the settings of a run and resolving them again.                 *)

\* the run that follows a set_config: nothing is on its command line
ResolvedAgain == written # None /\ pc # "config written"

\* C18: after the effective settings of a run were written with set_config,
\* a run with nothing on the command line resolves, whatever the clock
\* says, every field that was written to the value that was written, and
\* with the year and the day written the resolution does not fail.
C18_WrittenSettingsResolveToThemselves ==
    ResolvedAgain =>
        LET w == Unwrap(written)
        IN  /\ args = BaseArgs
            /\ \A c \in client :
                /\ w.year # None => w.year = {c.year}
                /\ w.day # None => w.day = {c.day}
                /\ w.width # None => w.width = {c.output_width}
                /\ w.input_filename # None
                       => w.input_filename = {c.input_filename}
                /\ w.description_filename # None
                       => w.description_filename = {c.puzzle_filename}
                /\ w.private_leaderboard_id # None
                       => w.private_leaderboard_id = c.leaderboard_id
            /\ (w.year # None /\ w.day # None /\ pc \in {"run", "done"})
                   => client # None

\* a width from the command line, a description file name and a leaderboard
\* id from the file and a date that is not the latest were written, and the
\* next run resolved to them
C18_Witness ==
    /\ ResolvedAgain
    /\ client # None
    /\ \A f \in ConfigFields \ {"session_file"} : Unwrap(written)[f] # None
    /\ args.width = None
    /\ Unwrap(client).output_width = 100
    /\ Unwrap(client).puzzle_filename = "cfg_day.md"
    /\ Unwrap(client).leaderboard_id = {22}
    /\ Unwrap(client).year = FirstClockYear - 1
    /\ Unwrap(client).day = 3

----------------------------------------------------------------------------
(* The two steps of the download command.                                  *)

\* a step of the download command has just been taken
DownloadStep ==
    /\ args.command = "download"
    /\ pc \in {"run", "save input"}
    /\ obs'.op \in {"save_puzzle_markdown", "save_input"}

\* C20: in a download each step that was asked for is attempted before the
\* process ends, whatever became of the other step, and a step that fails
\* leaves the files as they were, the file saved by the other step among
\* them.
C20_DownloadStepsIndependent ==
    [][ DownloadStep =>
            /\ (pc' = "done" /\ ~args.puzzle_only) => obs'.op = "save_input"
            /\ (pc' = "done" /\ ~args.input_only)
                   => \/ obs'.op = "save_puzzle_markdown"
                      \/ pc = "save input"
            /\ ~IsOk(obs'.ret) => disk' = disk ]_vars

----------------------------------------------------------------------------
(* How the process ends.                                                   *)

\* the process has ended with an error
EndedWithError == exit # None /\ ~IsOk(result)

----------------------------------------------------------------------------
(* The configuration files.                                                *)

\* every value of the document has the TOML type of its field
WellTyped(doc) ==
    \A f \in DOMAIN doc :
        doc[f] # None =>
            Unwrap(doc[f]).type
                = (IF f \in {"year", "day", "width", "private_leaderboard_id"}
                   THEN "integer" ELSE "string")

\* what get_config returns for the file at the path
ConfigOfFile(path) ==
    IF WellTyped(disk[path])
    THEN [config |-> Unwrap(toml_from_str(disk[path])), path |-> Some(path)]
    ELSE [config |-> [f \in DOMAIN disk[path] |-> None], path |-> None]

\* C22: get_config takes the home file when it can be read and the file of
\* the config directory only when the home file cannot; a file that is
\* read and does not parse yields the default Config and no path, and a
\* home file that does not parse is not followed by the other file.
C22_HomeFileThenConfigDirFile ==
    obs.op = "get_config" =>
        obs.ret =
            IF "~/.adventofcode_config.toml" \in DOMAIN disk
            THEN ConfigOfFile("~/.adventofcode_config.toml")
            ELSE IF "~/.config/.adventofcode_config.toml" \in DOMAIN disk
            THEN ConfigOfFile("~/.config/.adventofcode_config.toml")
            ELSE [config |-> [f \in ConfigFields |-> None], path |-> None]

\* the home file does not parse, the file of the config directory does, and
\* get_config returned the default Config and no path
C22_Witness ==
    /\ obs.op = "get_config"
    /\ "~/.adventofcode_config.toml" \in DOMAIN disk
    /\ ~WellTyped(disk["~/.adventofcode_config.toml"])
    /\ "~/.config/.adventofcode_config.toml" \in DOMAIN disk
    /\ WellTyped(disk["~/.config/.adventofcode_config.toml"])
    /\ obs.ret.path = None
    /\ \A f \in ConfigFields : obs.ret.config[f] = None

\* the configuration as it is persisted
Persisted(d) == get_config(d).config

\* the value the last call that supplied the field gave it, or the value
\* the field had before the first call
LastSupplied(f) ==
    LET supplying == {i \in 1..Len(calls) : calls[i][f] # None}
    IN  IF supplying = {} THEN config[f]
        ELSE calls[CHOOSE i \in supplying : \A j \in supplying : j <= i][f]

\* a set_config call with the arguments obs'.arg has just returned
SetConfigStep == obs'.op = "set_config"

\* C27: a set_config call sets the persisted fields it is given a value
\* for and leaves the other fields, and every other file, as they were, and
\* after any sequence of calls each field holds the value of the last call
\* that supplied it, or its original value if none did.
C27_SetConfigChangesSuppliedFieldsOnly ==
    /\ [](\A f \in ConfigFields : Persisted(disk)[f] = LastSupplied(f))
    /\ [][ SetConfigStep =>
             IF IsOk(obs'.ret)
             THEN /\ \A f \in ConfigFields :
                        Persisted(disk')[f] =
                            IF obs'.arg[f] # None THEN obs'.arg[f]
                            ELSE Persisted(disk)[f]
                  /\ get_config(disk').path = get_config(disk).path
                  /\ DOMAIN disk' = DOMAIN disk
                  /\ \A q \in DOMAIN disk :
                        {q} # get_config(disk).path => disk'[q] = disk[q]
             ELSE disk' = disk ]_vars

\* a first call gave the year and the width, a second one the year again
\* and the description file name: the year is the second call's, the width
\* the first call's and the input file name the one the file had
C27_Witness ==
    /\ Len(calls) = 2
    /\ calls[1].year # None /\ calls[2].year # None
    /\ calls[1].year # calls[2].year
    /\ Persisted(disk).year = calls[2].year
    /\ calls[2].width = None
    /\ Persisted(disk).width = calls[1].width
    /\ Persisted(disk).description_filename = {"day.md"}
    /\ Persisted(disk).input_filename = {"cfg_in.txt"}

----------------------------------------------------------------------------
(* The default date.                                                       *)

\* neither the command line nor the file gives a year or a day
DefaultDate ==
    /\ args.year = None /\ args.day = None
    /\ config.year = None /\ config.day = None

\* C23: the client built from the default year and the default day is
\* unlocked when it is built and at every later instant, wherever the clock
\* stood at each of the separate readings.
C23_DefaultClientAlwaysUnlocked ==
    (DefaultDate /\ client # None) =>
        LET c == Unwrap(client)
        IN  /\ now >= ReleaseMidnightUtc(c.year, 12, c.day)
            /\ day_unlocked(c, now)

\* the year was read before the December of the year after it began and
\* the client was built in that December: the clock crossed the month
\* boundary between the reading for the year and the build
C23_Witness ==
    /\ DefaultDate
    /\ client # None
    /\ pc = "run"
    /\ obs.op = "build"
    /\ InDecemberOf(Unwrap(client).year + 1)
    /\ Unwrap(client).day = 25
    /\ day_unlocked(Unwrap(client), now)

----------------------------------------------------------------------------
(* The two computations of what is unlocked.                               *)

\* C24: day_unlocked() of a client for (year, day) is true exactly when
\* last_unlocked_day(year) is a day that is not before `day`, and the grid
\* of the leaderboard has a cell that is not blank for exactly the days
\* whose puzzle is unlocked.
C24_UnlockComputationsAgree ==
    /\ obs.op = "day_unlocked" =>
           LET c == Unwrap(client)
               last == last_unlocked_day(c.year, now)
           IN  obs.ret <=> (last # None /\ c.day <= Unwrap(last))
    /\ LeaderboardShown =>
           \A i \in 1..Len(MemberRows) : \A d \in 1..25 :
               MemberRows[i].stars[d].text # " "
                   <=> now >= ReleaseMidnightUtc(Unwrap(client).year, 12, d)

\* at the instant the third day is released both say that it is unlocked
C24_Witness ==
    /\ obs.op = "day_unlocked"
    /\ obs.ret
    /\ Unwrap(client).day = 3
    /\ now = ReleaseMidnightUtc(Unwrap(client).year, 12, 3)
    /\ last_unlocked_day(Unwrap(client).year, now) = Some(3)

----------------------------------------------------------------------------
(* The default day of a year whose event has not begun.                    *)

\* no day is given, on the command line or in the file
DefaultDay == args.day = None /\ config.day = None

\* C25: when the resolved year is the current year and the month is before
\* December, latest_puzzle_day sets day 1 although last_unlocked_day(year)
\* is None; the client is built with that day and is locked, and reading or
\* downloading the puzzle with it returns LockedPuzzle(1, year).
C25_DefaultDayOfCurrentYearBeforeDecember ==
    /\ (pc = "settings" /\ obs.op = "latest_puzzle_day"
            /\ BeforeDecemberOf(Unwrap(builder.year)))
           => /\ builder.day = {1}
              /\ last_unlocked_day(Unwrap(builder.year), now) = None
    /\ \A c \in client :
        (DefaultDay /\ BeforeDecemberOf(c.year)) =>
            /\ c.day = 1
            /\ ~day_unlocked(c, now)
            /\ obs.op \in {"show_puzzle", "save_puzzle_markdown",
                           "save_input"}
                   => /\ obs.ret = [kind |-> "LockedPuzzle", day |-> 1,
                                    year |-> c.year, field |-> ""]
                      /\ result = obs.ret

\* a download for the current year, asked for before December without a
\* day, was refused for day 1
C25_Witness ==
    /\ client # None
    /\ DefaultDay
    /\ args.year = {Unwrap(client).year}
    /\ BeforeDecemberOf(Unwrap(client).year)
    /\ obs.op = "save_puzzle_markdown"
    /\ obs.ret.kind = "LockedPuzzle"
    /\ obs.ret.day = 1
    /\ requests = <<>>

----------------------------------------------------------------------------
(* The order of the checks of show_private_leaderboard.                    *)

\* no day of the client's year is unlocked yet
NoUnlockedDay ==
    now < ReleaseMidnightUtc(Unwrap(client).year, 12, FIRST_PUZZLE_DAY)

\* neither the argument nor the client holds a leaderboard id
NoLeaderboardId ==
    args.leaderboard_id = None /\ Unwrap(client).leaderboard_id = None

\* C26: show_private_leaderboard checks in a fixed order before any request:
\* a year without an unlocked day gives InvalidEventYear; otherwise a missing
\* leaderboard id gives PrivateLeaderboardNoId; only then is the leaderboard
\* fetched.  InvalidEventYear wins when both hold, and in neither case is a
\* request sent.
C26_LeaderboardChecksInOrder ==
    [][ CommandStep({"private-leaderboard"}) =>
          /\ NoUnlockedDay
                 => /\ result' = [kind |-> "InvalidEventYear", day |-> 0,
                                  year |-> Unwrap(client).year, field |-> ""]
                    /\ requests' = requests
          /\ (~NoUnlockedDay /\ NoLeaderboardId)
                 => /\ result' = [kind |-> "PrivateLeaderboardNoId",
                                  day |-> 0, year |-> 0, field |-> ""]
                    /\ requests' = requests
          /\ (~NoUnlockedDay /\ ~NoLeaderboardId)
                 => Len(requests') = Len(requests) + 1 ]_vars

\* the command ran without a leaderboard id for a year without an unlocked
\* day: InvalidEventYear, and nothing was sent
C26_Witness ==
    /\ pc = "done"
    /\ args.command = "private-leaderboard"
    /\ NoUnlockedDay
    /\ NoLeaderboardId
    /\ result.kind = "InvalidEventYear"
    /\ requests = <<>>

====
